---- MODULE Spec2Model ----
(***************************************************************************)
(* The trade lifecycle of AutomaticTradeExecutor                           *)
(* (packages/server/src/services/automatic-trade-executor.ts) together     *)
(* with UltimateStrategy.analyzeSymbol and the ten indicators it runs      *)
(* (packages/server/src/services/ultimate-strategy.ts, unnamed/part_008).  *)
(*                                                                         *)
(* Every async method is cut at its awaits: the code between two awaits    *)
(* runs atomically on the JavaScript event loop and is one action.  The    *)
(* market gateway (ZerodhaClient) is the environment: each awaited call    *)
(* either rejects or resolves with a response drawn from a small set.      *)
(* The clock may move between two steps (Tick) and between two readings    *)
(* within one step.                                                        *)
(* Optional fields (closedAt?, exitPrice?, pnl?) are <<>> when undefined   *)
(* and <<v>> when set.  Trade objects live in the heap `trades`, a         *)
(* function from object identities to ExecutedTrade records; the Map       *)
(* activeTrades holds [id, obj] entries in insertion order.  An object     *)
(* that neither the Map nor an invocation in flight refers to can no       *)
(* longer be reached by the executor and is dropped from the heap.         *)
(*                                                                         *)
(* Specifications:                                                         *)
(*   Spec           the executor under a host that serializes its calls    *)
(*   SpecStats      Spec with the history of closed trades kept            *)
(*   SpecMonitors   monitorActiveTrades calls that are not serialized      *)
(*   SpecExecutes   executeTradeSignals calls that are not serialized      *)
(*   SpecClosed     repeated monitor calls while the gateway reports the   *)
(*                  position closed (weakly fair)                          *)
(*   SpecRoutes     the /automatic-trade HTTP routes, one executor each    *)
(*   SpecEngine     TradingEngineService: executeSignal, monitorTrades,    *)
(*                  cancelTrade                                            *)
(*   SpecConsensus  calculateConfidence and determineFinalSignal over all  *)
(*                  outcomes of the ten indicators                         *)
(*   SpecRisk       analyzeSymbol and the two calculateATR over quotes     *)
(*                  and candle series                                      *)
(*   SpecRSI        SignalDetectionService.detectRSI over close series     *)
(*   SpecMACD       SignalDetectionService.detectMACD over close series    *)
(*   SpecStrikes    OptionsTradeService.getAvailableStrikes                *)
(*   SpecExpiry     OptionsTradeService.getNextExpiryDate                  *)
(*   SpecGreeks     OptionsTradeService.calculateGreeks (delta)            *)
(*   SpecCondor     OptionsTradeService.createIronCondor                   *)
(* From SpecConsensus on, `probe` holds the call under evaluation and then *)
(* its result; the executor is left at rest.                               *)
(***************************************************************************)
EXTENDS Integers, Sequences, FiniteSets, TLC

\* ------------------------------------------------------------- bounds
\* Bracket orders (and so trade objects) placed in one behaviour.
MaxTrades == 2
\* Milliseconds the clock (Date.now()) may advance in one behaviour.
MaxClock == 1
\* Candles in a series handed to detectMACD, at most.
MaxCandles == 28

\* Invocation slots; a serializing host uses one at a time, so Spec runs
\* every call in slot 1.
Procs == {1, 2}
Serial == {1}

\* ---------------------------------------------------------- constants
\* UltimateStrategy.minConfidenceThreshold
minConfidenceThreshold == 80
\* calculateATR's default period
AtrPeriod == 14
\* calculateRiskManagement's riskFactor
riskFactor == 2

None == <<>>
Some(v) == <<v>>

\* AutomaticTradeConfig values handed to the constructor (the symbol is
\* fixed and left implicit).
Configs ==
  { [instrumentToken |-> 1, minConfidence |-> 80, maxOpenTrades |-> 2,
     quantity |-> 2],
    [instrumentToken |-> 1, minConfidence |-> 80, maxOpenTrades |-> 1,
     quantity |-> 3],
    [instrumentToken |-> 1, minConfidence |-> 90, maxOpenTrades |-> 1,
     quantity |-> 3] }

\* ------------------------------------------------------------ helpers
Max2(a, b) == IF a >= b THEN a ELSE b
Abs(x) == IF x < 0 THEN -x ELSE x

RECURSIVE SumSeq(_)
SumSeq(s) == IF s = <<>> THEN 0 ELSE Head(s) + SumSeq(Tail(s))

\* Array.prototype.slice(-n)
SliceLast(s, n) ==
  IF Len(s) <= n THEN s ELSE SubSeq(s, Len(s) - n + 1, Len(s))

\* ------------------------------------------------ SignalDetectionService
\* The period runAllSignals hands to detectRSI.
RsiPeriod == 14

\* closes.slice(1).map((c, i) => c - closes[i])
Changes(candles) ==
  [i \in 1..(Len(candles) - 1) |-> candles[i + 1].close - candles[i].close]

\* calculateRSI, as the fraction num / den: with avgLoss = 0 the code takes
\* rs = 0, so 100 - 100 / (1 + rs) is 0; otherwise rs = avgGain / avgLoss
\* and 100 - 100 / (1 + rs) = 100 * gains / (gains + losses), the two
\* averages being sums over the same period.
calculateRSI(candles, period) ==
  LET changes == Changes(candles)
      gains == SumSeq(SelectSeq(changes, LAMBDA c : c > 0))
      losses == SumSeq([i \in DOMAIN SelectSeq(changes, LAMBDA c : c < 0) |->
                         Abs(SelectSeq(changes, LAMBDA c : c < 0)[i])])
  IN  IF losses = 0 THEN [num |-> 0, den |-> 1]
      ELSE [num |-> 100 * gains, den |-> gains + losses]

\* detectRSI: null ("NONE") for fewer than period + 1 candles, BUY below
\* 30, SELL above 70
detectRSI(candles, period) ==
  LET rsi == calculateRSI(candles, period)
  IN  IF Len(candles) < period + 1 THEN "NONE"
      ELSE IF rsi.num < 30 * rsi.den THEN "BUY"
      ELSE IF rsi.num > 70 * rsi.den THEN "SELL"
      ELSE "NONE"

\* ---- exact arithmetic for the moving averages
\* An exponential moving average is not a whole number.  It is held
\* exactly, as a whole multiple of 1 / 3510^(MaxCandles - 1): 3510 = 13 *
\* 27 * 10 is the product of period + 1 for the periods 12, 26 and 9, and
\* every value the code computes from at most MaxCandles whole prices is
\* such a multiple.  A number is the record [neg, mag]: its sign and the
\* limbs of its magnitude, lowest first, in base 100000, without leading
\* zeros.  The code computes in doubles, which round each step to 53
\* bits; the rounding is left out.  An operation on the limbs lo..hi, and
\* a repetition, is split in halves, and the half that the other one
\* starts from is computed before the other one is entered (a test such as
\* half = half does that): that keeps the evaluation shallow.
Low(x) == x % 100000
High(x) == x \div 100000
Join(hi, lo) == hi * 100000 + lo
Digit(a, i) == IF i <= Len(a) THEN a[i] ELSE 0

\* a without its leading zero limbs
Trim(a) ==
  SubSeq(a, 1, IF \A i \in 1..Len(a) : a[i] = 0 THEN 0
               ELSE CHOOSE i \in 1..Len(a) :
                      a[i] # 0 /\ \A j \in (i + 1)..Len(a) : a[j] = 0)

\* The limbs lo..hi of a + sign * b + carry, sign 1 or -1, and the carry
\* out of them (-1 for a borrow)
RECURSIVE AddOver(_, _, _, _, _, _)
AddOver(a, b, sign, lo, hi, carry) ==
  IF lo = hi
    THEN [limbs |-> <<Low(Digit(a, lo) + sign * Digit(b, lo) + carry)>>,
          carry |-> High(Digit(a, lo) + sign * Digit(b, lo) + carry)]
  ELSE LET low == AddOver(a, b, sign, lo, (lo + hi) \div 2, carry)
           high == AddOver(a, b, sign, (lo + hi) \div 2 + 1, hi, low.carry)
       IN  IF low = low
             THEN [limbs |-> low.limbs \o high.limbs, carry |-> high.carry]
           ELSE low

\* a + b, and for a >= b and sign -1, a - b
MagSum(a, b, sign) ==
  Trim(AddOver(a, b, sign, 1, Max2(Len(a), Len(b)) + 1, 0).limbs)

\* The limbs lo..hi of a * m + carry, and the carry out of them
RECURSIVE MulOver(_, _, _, _, _)
MulOver(a, m, lo, hi, carry) ==
  IF lo = hi
    THEN [limbs |-> <<Low(Digit(a, lo) * m + carry)>>,
          carry |-> High(Digit(a, lo) * m + carry)]
  ELSE LET low == MulOver(a, m, lo, (lo + hi) \div 2, carry)
           high == MulOver(a, m, (lo + hi) \div 2 + 1, hi, low.carry)
       IN  IF low = low
             THEN [limbs |-> low.limbs \o high.limbs, carry |-> high.carry]
           ELSE low

\* a * m for a whole m in 0..21474
MagMul(a, m) == Trim(MulOver(a, m, 1, Len(a) + 1, 0).limbs)

\* The limbs lo..hi of (rem, a) / m, rem standing above limb hi, and the
\* remainder left under limb lo
RECURSIVE DivOver(_, _, _, _, _)
DivOver(a, m, lo, hi, rem) ==
  IF lo = hi
    THEN [limbs |-> <<Join(rem, Digit(a, lo)) \div m>>,
          rem |-> Join(rem, Digit(a, lo)) % m]
  ELSE LET high == DivOver(a, m, (lo + hi) \div 2 + 1, hi, rem)
           low == DivOver(a, m, lo, (lo + hi) \div 2, high.rem)
       IN  IF high = high
             THEN [limbs |-> low.limbs \o high.limbs, rem |-> low.rem]
           ELSE high

\* a / m rounded down, for a whole m in 1..21474
MagDiv(a, m) == Trim(DivOver(a, m, 1, Len(a) + 1, 0).limbs)

\* a < b
MagLess(a, b) ==
  \/ Len(a) < Len(b)
  \/ /\ Len(a) = Len(b)
     /\ \E i \in 1..Len(a) :
          a[i] < b[i] /\ \A k \in (i + 1)..Len(a) : a[k] = b[k]

\* a * 3510^n
RECURSIVE Times3510(_, _)
Times3510(a, n) ==
  IF n = 0 THEN a
  ELSE IF n = 1 THEN MagMul(a, 3510)
  ELSE LET half == Times3510(a, n \div 2)
       IN  IF half = half THEN Times3510(half, n - n \div 2) ELSE half
ExactOne == Times3510(<<1>>, MaxCandles - 1)

Num(neg, mag) == [neg |-> neg /\ mag # <<>>, mag |-> mag]

\* The whole number n, |n| <= 21474
Exact(n) == Num(n < 0, MagMul(ExactOne, Abs(n)))
ExactSeq(s) == [i \in 1..Len(s) |-> Exact(s[i])]

\* x + y: of the number larger in magnitude and the other one, the sum or
\* the difference of the magnitudes, under the sign of the larger
Larger(x, y) == IF MagLess(x.mag, y.mag) THEN y ELSE x
Smaller(x, y) == IF MagLess(x.mag, y.mag) THEN x ELSE y
NumAdd(x, y) ==
  Num(Larger(x, y).neg,
      MagSum(Larger(x, y).mag, Smaller(x, y).mag,
             IF x.neg = y.neg THEN 1 ELSE -1))

\* x - y, x < y, x <= y
NumSub(x, y) == NumAdd(x, Num(~y.neg, y.mag))
NumLess(x, y) ==
  IF x.neg # y.neg THEN x.neg
  ELSE IF x.neg THEN MagLess(y.mag, x.mag) ELSE MagLess(x.mag, y.mag)
NumAtMost(x, y) == ~NumLess(y, x)

\* x * m and x / m for a whole m in 1..21474; the division leaves no
\* remainder where the model uses it.
NumMul(x, m) == Num(x.neg, MagMul(x.mag, m))
NumDiv(x, m) == Num(x.neg, MagDiv(x.mag, m))

\* a / m^n rounded down
RECURSIVE MagDivTimes(_, _, _)
MagDivTimes(a, m, n) ==
  IF n = 0 THEN a
  ELSE IF n = 1 THEN MagDiv(a, m)
  ELSE LET half == MagDivTimes(a, m, n \div 2)
       IN  IF half = half THEN MagDivTimes(half, m, n - n \div 2) ELSE half

\* The number in ten-thousandths, rounded towards 0 (for values below
\* 200000 in magnitude).
LowestTwo(a) == Join(Digit(a, 2), Digit(a, 1))
TenThousandths(x) ==
  (IF x.neg THEN -1 ELSE 1)
    * LowestTwo(MagDivTimes(MagMul(x.mag, 10000), 3510, MaxCandles - 1))

\* calculateEMA with multiplier = 2 / (period + 1):
\* ema = prices[i] * multiplier + ema * (1 - multiplier), from prices[0];
\* 0 for no prices.  prices[i] * 2 / (period + 1) + ema * (period - 1) /
\* (period + 1) is taken over the common denominator.  EmaOver is ema
\* after the passes of the loop over prices[lo] to prices[hi].
RECURSIVE EmaOver(_, _, _, _, _)
EmaOver(prices, period, lo, hi, ema) ==
  IF lo > hi THEN ema
  ELSE IF lo = hi
    THEN NumDiv(NumAdd(NumMul(prices[lo], 2), NumMul(ema, period - 1)),
                period + 1)
  ELSE LET half == EmaOver(prices, period, lo, (lo + hi) \div 2, ema)
       IN  IF half = half
             THEN EmaOver(prices, period, (lo + hi) \div 2 + 1, hi, half)
           ELSE half

calculateEMA(prices, period) ==
  IF Len(prices) = 0 THEN Exact(0)
  ELSE EmaOver(prices, period, 2, Len(prices), prices[1])

\* candles.map(c => c.close)
Closes(candles) == [i \in 1..Len(candles) |-> candles[i].close]

\* closes.slice(0, -1)
DropLast(s) == SubSeq(s, 1, Len(s) - 1)

\* ema12 - ema26
MacdOf(closes) ==
  LET prices == ExactSeq(closes)
  IN  NumSub(calculateEMA(prices, 12), calculateEMA(prices, 26))

\* prevMACD <= prevSignal && macd > signal, and the mirrored condition
CrossesUp(macd, signal, prevMACD, prevSignal) ==
  NumAtMost(prevMACD, prevSignal) /\ NumLess(signal, macd)
CrossesDown(macd, signal, prevMACD, prevSignal) ==
  NumAtMost(prevSignal, prevMACD) /\ NumLess(macd, signal)

\* The vote detectMACD takes from macd, signal, prevMACD and prevSignal
MacdVote(macd, signal, prevMACD, prevSignal) ==
  IF CrossesUp(macd, signal, prevMACD, prevSignal) THEN "BUY"
  ELSE IF CrossesDown(macd, signal, prevMACD, prevSignal) THEN "SELL"
  ELSE "NONE"

\* The signal line of detectMACD is calculateEMA([macd], 9), the EMA of
\* the one-element array.
MacdCross(macd, prevMACD) ==
  MacdVote(macd, calculateEMA(<<macd>>, 9),
           prevMACD, calculateEMA(<<prevMACD>>, 9))

\* detectMACD: null ("NONE") for fewer than 26 candles
detectMACD(candles) ==
  IF Len(candles) < 26 THEN "NONE"
  ELSE MacdCross(MacdOf(Closes(candles)), MacdOf(DropLast(Closes(candles))))

\* calculateMA: the mean of the last period prices as the fraction
\* num / den, 0 for fewer than period prices.
calculateMA(prices, period) ==
  IF Len(prices) < period THEN [num |-> 0, den |-> 1]
  ELSE [num |-> SumSeq(SliceLast(prices, period)), den |-> period]

\* detectMAcrossover: null ("NONE") for fewer than longMA + 1 candles, BUY
\* when the short average crosses above the long one, SELL when it crosses
\* below.
detectMAcrossover(candles, shortMA, longMA) ==
  LET closes == Closes(candles)
      shortAvg == calculateMA(closes, shortMA)
      longAvg == calculateMA(closes, longMA)
      prevShortAvg == calculateMA(DropLast(closes), shortMA)
      prevLongAvg == calculateMA(DropLast(closes), longMA)
      AtMost(a, b) == a.num * b.den <= b.num * a.den
  IN  IF Len(candles) < longMA + 1 THEN "NONE"
      ELSE IF AtMost(prevShortAvg, prevLongAvg) /\ ~AtMost(shortAvg, longAvg)
        THEN "BUY"
      ELSE IF AtMost(prevLongAvg, prevShortAvg) /\ ~AtMost(longAvg, shortAvg)
        THEN "SELL"
      ELSE "NONE"

\* detectBollingerBands: null ("NONE") for fewer than period candles, BUY
\* when the last close is at or below sma - deviation * std, SELL when it
\* is at or above sma + deviation * std (std the population deviation of
\* the last period closes).  With sum the sum of those closes,
\* dist = period * (lastPrice - sma) and squares = period^2 * the sum of
\* the squared differences, lastPrice <= sma - deviation * std is
\* dist <= 0 /\ period * dist^2 >= deviation^2 * squares.
detectBollingerBands(candles, period, deviation) ==
  LET closes == Closes(candles)
      lastPrice == closes[Len(closes)]
      window == SliceLast(closes, period)
      sum == SumSeq(window)
      dist == period * lastPrice - sum
      squares == SumSeq([i \in 1..Len(window) |->
                           (period * window[i] - sum) * (period * window[i] - sum)])
      outside == period * dist * dist >= deviation * deviation * squares
  IN  IF Len(candles) < period THEN "NONE"
      ELSE IF dist <= 0 /\ outside THEN "BUY"
      ELSE IF dist >= 0 /\ outside THEN "SELL"
      ELSE "NONE"

\* ------------------------------------------------- consensus (inputs)
\* The keys of the object runAllSignals returns, in property order.
SignalKeys ==
  << "maCrossover_1h", "rsi_1h", "macd_1h", "bollingerBands_1h",
     "maCrossover_15m", "rsi_15m", "macd_15m",
     "volumeConfirmation", "trendStrength", "srBounce" >>

CountVotes(signals, v) ==
  Cardinality({i \in DOMAIN signals : signals[i] = v})

\* Variant: the indicators that returned null are left out of the total.
calculateConfidenceVoters(signals) ==
  LET buySignals == CountVotes(signals, "BUY")
      sellSignals == CountVotes(signals, "SELL")
  IN  [confidence |->
         IF buySignals > sellSignals
           THEN (buySignals * 100) \div (buySignals + sellSignals)
         ELSE IF sellSignals > buySignals
           THEN (sellSignals * 100) \div (buySignals + sellSignals)
         ELSE 0,
       matchedSignals |->
         SelectSeq([i \in 1..Len(signals) |-> i],
                   LAMBDA i : signals[i] \in {"BUY", "SELL"})]

\* calculateConfidence: (majority / total) * 100, 0 on a tie.  The
\* division is exact for the 10 indicators of runAllSignals.
calculateConfidence(signals) ==
  LET buySignals == CountVotes(signals, "BUY")
      sellSignals == CountVotes(signals, "SELL")
      totalSignals == Len(signals)
  IN  [confidence |->
         IF buySignals > sellSignals
           THEN (buySignals * 100) \div totalSignals
         ELSE IF sellSignals > buySignals
           THEN (sellSignals * 100) \div totalSignals
         ELSE 0,
       matchedSignals |->
         SelectSeq([i \in 1..Len(signals) |-> i],
                   LAMBDA i : signals[i] \in {"BUY", "SELL"})]

\* Variant: a confidence equal to the threshold is not enough.
determineFinalSignalAbove(signals, confidence) ==
  IF confidence <= minConfidenceThreshold THEN "NONE"
  ELSE IF CountVotes(signals, "BUY") > CountVotes(signals, "SELL") THEN "BUY"
  ELSE IF CountVotes(signals, "SELL") > CountVotes(signals, "BUY") THEN "SELL"
  ELSE "NONE"

determineFinalSignal(signals, confidence) ==
  IF confidence < minConfidenceThreshold THEN "NONE"
  ELSE IF CountVotes(signals, "BUY") > CountVotes(signals, "SELL") THEN "BUY"
  ELSE IF CountVotes(signals, "SELL") > CountVotes(signals, "BUY") THEN "SELL"
  ELSE "NONE"

\* ------------------------------------------------------ risk management
\* A candle of getHistoricalData
Bar(o, h, l, c, v) ==
  [open |-> o, high |-> h, low |-> l, close |-> c, volume |-> v]

\* A candle that closes where it opened, on a volume of 1000
Candle(h, l, c) == Bar(c, h, l, c, 1000)

\* n candles of the same shape
Flat(n, h, l, c) == [i \in 1..n |-> Candle(h, l, c)]

\* 26 hourly candles of a sell-off that turns: five closes at 112, twelve
\* at 100, eight at 101 with highs and lows rising over the last four, and
\* a last candle that opens at 92 and closes at 93 on four times the
\* volume.  The true ranges of the last 14 candles add up to 28.
Reversal1h ==
  [i \in 1..26 |->
     IF i <= 5 THEN Candle(113, 111, 112)
     ELSE IF i <= 17 THEN Candle(101, 100, 100)
     ELSE IF i = 18 THEN Candle(101, 100, 101)
     ELSE IF i = 19 THEN Candle(102, 101, 101)
     ELSE IF i <= 21 THEN Candle(101, 101, 101)
     ELSE IF i <= 25 THEN Candle(79 + i, 76 + i, 101)
     ELSE Bar(92, 93, 92, 93, 4000)]

\* The series turned upside down around price k: highs and lows, rises and
\* falls change places.
Mirror(candles, k) ==
  [i \in 1..Len(candles) |->
     Bar(k - candles[i].open, k - candles[i].low, k - candles[i].high,
         k - candles[i].close, candles[i].volume)]

\* The series with every price multiplied by k.
Scale(candles, k) ==
  [i \in 1..Len(candles) |->
     Bar(k * candles[i].open, k * candles[i].high, k * candles[i].low,
         k * candles[i].close, candles[i].volume)]

\* The hourly candle series the gateway answers the executor's analysis
\* with: the turn at the bottom and its mirror image, the turn at the top.
CandleSeries == { Reversal1h, Mirror(Reversal1h, 200) }

\* 15 quarter-hour candles, flat at 100 with a last close at 101.
Breakout15m ==
  [i \in 1..15 |-> IF i = 15 THEN Bar(100, 102, 100, 101, 1000)
                            ELSE Candle(101, 99, 100)]

\* 16 quarter-hour candles: one at 100, fourteen at 130, a last close at 129.
Breakdown15m ==
  [i \in 1..16 |-> IF i = 1 THEN Candle(101, 99, 100)
                   ELSE IF i = 16 THEN Bar(130, 130, 128, 129, 1000)
                   ELSE Candle(131, 129, 130)]

\* The quarter-hour candle series the gateway answers with.
CandleSeries15m == { Breakout15m, Breakdown15m }

TrueRange(candles, i) ==
  Max2(candles[i].high - candles[i].low,
       Max2(Abs(candles[i].high - candles[i - 1].close),
            Abs(candles[i].low - candles[i - 1].close)))

calculateATR(candles, period) ==
  IF Len(candles) < period THEN 0
  ELSE LET trList == [i \in 1..(Len(candles) - 1) |-> TrueRange(candles, i + 1)]
       IN  SumSeq(SliceLast(trList, period)) \div period

\* AIMarketAnalysisService.calculateATR: the first candle's range counts
\* as a true range too.
calculateATRMarket(candles, period) ==
  IF Len(candles) < period THEN 0
  ELSE LET trs == [i \in 1..Len(candles) |->
                     IF i = 1 THEN candles[i].high - candles[i].low
                     ELSE TrueRange(candles, i)]
       IN  SumSeq(SliceLast(trs, period)) \div period

\* Variant: the target is one ATR away, like the stoploss.
calculateRiskManagementEven(currentPrice, signal, candles) ==
  LET atr == calculateATR(candles, AtrPeriod)
  IN  IF signal = "BUY"
        THEN [target |-> currentPrice + atr, stoploss |-> currentPrice - atr]
      ELSE IF signal = "SELL"
        THEN [target |-> currentPrice - atr, stoploss |-> currentPrice + atr]
      ELSE [target |-> 0, stoploss |-> 0]

calculateRiskManagement(currentPrice, signal, candles) ==
  LET atr == calculateATR(candles, AtrPeriod)
  IN  IF signal = "BUY"
        THEN [target |-> currentPrice + atr * riskFactor,
              stoploss |-> currentPrice - atr]
      ELSE IF signal = "SELL"
        THEN [target |-> currentPrice - atr * riskFactor,
              stoploss |-> currentPrice + atr]
      ELSE [target |-> 0, stoploss |-> 0]

\* reward / risk; exact for the levels calculateRiskManagement produces.
calculateRiskReward(currentPrice, target, stoploss) ==
  IF stoploss = 0 \/ stoploss = currentPrice THEN 0
  ELSE Abs(target - currentPrice) \div Abs(currentPrice - stoploss)

\* quote[instrumentToken]?.last_price || 0 : a quote is None when the
\* gateway's answer has no entry for the instrument.
LastPriceOrZero(quote) ==
  IF quote = None \/ quote[1] = 0 THEN 0 ELSE quote[1]

\* Quotes the gateway may answer getQuote with: no entry for the
\* instrument, or a last price.
Quotes == { None, Some(100) }

\* analyzeVolume: null ("NONE") for fewer than 2 candles; the last candle
\* votes with its direction when its volume is above 1.5 times the sum of
\* the last 10 volumes over 10, i.e. 20 * volume > 3 * sum.
analyzeVolume(candles) ==
  LET lastCandle == candles[Len(candles)]
      recent == SliceLast(candles, 10)
      sum == SumSeq([i \in 1..Len(recent) |-> recent[i].volume])
      high == 20 * lastCandle.volume > 3 * sum
  IN  IF Len(candles) < 2 THEN "NONE"
      ELSE IF lastCandle.close > lastCandle.open /\ high THEN "BUY"
      ELSE IF lastCandle.close < lastCandle.open /\ high THEN "SELL"
      ELSE "NONE"

\* analyzeTrendStrength: null ("NONE") for fewer than 5 candles; over the
\* last 5 candles, BUY on at least 3 higher highs and 3 higher lows, SELL
\* on at least 3 lower highs and 3 lower lows.
analyzeTrendStrength(candles) ==
  LET lastCandles == SliceLast(candles, 5)
      pairs == 2..Len(lastCandles)
      higherHighs ==
        Cardinality({i \in pairs : lastCandles[i].high > lastCandles[i - 1].high})
      higherLows ==
        Cardinality({i \in pairs : lastCandles[i].low > lastCandles[i - 1].low})
      lowerHighs ==
        Cardinality({i \in pairs : lastCandles[i].high < lastCandles[i - 1].high})
      lowerLows ==
        Cardinality({i \in pairs : lastCandles[i].low < lastCandles[i - 1].low})
  IN  IF Len(candles) < 5 THEN "NONE"
      ELSE IF higherHighs >= 3 /\ higherLows >= 3 THEN "BUY"
      ELSE IF lowerHighs >= 3 /\ lowerLows >= 3 THEN "SELL"
      ELSE "NONE"

\* analyzeSupportResistance: null ("NONE") for fewer than 20 candles; BUY
\* when the last close is within 0.05 of the range of the last 20 closes
\* from their minimum, SELL when it is that near to their maximum.
analyzeSupportResistance(candles) ==
  LET closes == SliceLast(Closes(candles), 20)
      values == {closes[i] : i \in 1..Len(closes)}
      minClose == CHOOSE m \in values : \A v \in values : m <= v
      maxClose == CHOOSE m \in values : \A v \in values : m >= v
      currentClose == closes[Len(closes)]
  IN  IF Len(candles) < 20 THEN "NONE"
      ELSE IF 20 * Abs(currentClose - minClose) < maxClose - minClose THEN "BUY"
      ELSE IF 20 * Abs(currentClose - maxClose) < maxClose - minClose THEN "SELL"
      ELSE "NONE"

\* runAllSignals: the ten indicators' votes, in the order of SignalKeys.
runAllSignals(candles1h, candles15m) ==
  << detectMAcrossover(candles1h, 9, 21),
     detectRSI(candles1h, RsiPeriod),
     detectMACD(candles1h),
     detectBollingerBands(candles1h, 20, 2),
     detectMAcrossover(candles15m, 5, 13),
     detectRSI(candles15m, RsiPeriod),
     detectMACD(candles15m),
     analyzeVolume(candles1h),
     analyzeTrendStrength(candles1h),
     analyzeSupportResistance(candles1h) >>

\* The UltimateStrategySignal analyzeSymbol returns once its three gateway
\* calls have resolved with candles1h, candles15m and quote; StrategySignal
\* is the signal it builds from the votes of runAllSignals.  The fields
\* symbol and instrumentToken (the arguments handed back) and timestamp
\* (a further reading of the clock) are left out: no code of the executor
\* or of the engine reads them, the trade id excepted, for which one
\* executor has one symbol.  The from/to dates handed to getHistoricalData
\* are left out as well: the gateway's answer is an input.
StrategySignal(signals, candles1h, quote) ==
  LET currentPrice == LastPriceOrZero(quote)
      conf == calculateConfidence(signals)
      finalSignal == determineFinalSignal(signals, conf.confidence)
      rm == calculateRiskManagement(currentPrice, finalSignal, candles1h)
  IN  [signal |-> finalSignal,
       confidence |-> conf.confidence,
       signals_matched |-> conf.matchedSignals,
       price |-> currentPrice,
       target |-> rm.target,
       stoploss |-> rm.stoploss,
       risk_reward_ratio |->
         calculateRiskReward(currentPrice, rm.target, rm.stoploss)]

analyzeSymbol(candles1h, candles15m, quote) ==
  StrategySignal(runAllSignals(candles1h, candles15m), candles1h, quote)

\* analyzeSymbol on every answer of the gateway the executor is driven
\* with, taken once.
Analysis ==
  [c \in CandleSeries, d \in CandleSeries15m, q \in Quotes |->
     analyzeSymbol(c, d, q)]

\* --------------------------------------------------------------- state
VARIABLES
  config,        \* AutomaticTradeExecutor.config (never reassigned)
  trades,        \* heap: object identity -> ExecutedTrade, reachable objects
  activeTrades,  \* AutomaticTradeExecutor.activeTrades: Map<id, trade>
  clock,         \* Date.now()
  gwOrderSeq,    \* order references the gateway has handed out
  frame,         \* per invocation: method, position, locals, outcome
  closedLog,     \* history: the trades given status CLOSED so far
  probe          \* the call of a pure function under evaluation, its result

vars ==
  <<config, trades, activeTrades, clock, gwOrderSeq, frame, closedLog, probe>>

\* ----------------------------------------------------------- Map<K, V>
MapSize(m) == Len(m)
MapIndex(m, id) ==
  IF \E i \in 1..Len(m) : m[i].id = id
    THEN CHOOSE i \in 1..Len(m) : m[i].id = id
    ELSE 0
MapHas(m, id) == MapIndex(m, id) # 0
\* Map.get: the object stored under id, None for undefined
MapGet(m, id) == IF MapHas(m, id) THEN Some(m[MapIndex(m, id)].obj) ELSE None
\* Map.set: an existing key keeps its place and takes the new value
MapSet(m, id, obj) ==
  IF MapHas(m, id)
    THEN [m EXCEPT ![MapIndex(m, id)].obj = obj]
    ELSE Append(m, [id |-> id, obj |-> obj])
MapDelete(m, id) == SelectSeq(m, LAMBDA e : e.id # id)
\* The objects the map holds
MapValues(m) == {m[i].obj : i \in 1..Len(m)}

\* ---------------------------------------------------------------- heap
\* A new object enters the heap.
Alloc(heap, obj, trade) ==
  [o \in DOMAIN heap \cup {obj} |-> IF o = obj THEN trade ELSE heap[o]]

\* History of the trades given status CLOSED, object -> pnl.  It is kept
\* only in the specification that reads it.
NoLog == [kept |-> FALSE, pnl |-> <<>>]
EmptyLog == [kept |-> TRUE, pnl |-> <<>>]

\* The trade object obj was given status CLOSED, with this pnl.
LogClosed(log, obj, pnl) ==
  IF log.kept
    THEN [log EXCEPT !.pnl =
            [o \in DOMAIN log.pnl \cup {obj} |->
               IF o = obj THEN pnl ELSE log.pnl[o]]]
    ELSE log

\* The objects invocation frame f refers to.
FrameRefs(f) ==
  {f.trade[i] : i \in 1..Len(f.trade)}
    \cup {f.closedTrades[i] : i \in 1..Len(f.closedTrades)}

\* The heap without the objects nothing refers to any more.
Reclaim(heap, map, frames) ==
  LET live == MapValues(map) \cup UNION {FrameRefs(frames[q]) : q \in Procs}
  IN  [o \in DOMAIN heap \cap live |-> heap[o]]

\* ------------------------------------------------------- gateway calls
Call(fn, args, ok, ret) == [fn |-> fn, args |-> args, ok |-> ok, ret |-> ret]
CallsOf(calls, fn) == SelectSeq(calls, LAMBDA c : c.fn = fn)

\* Position lists getPositions may resolve with: a position of the traded
\* instrument (flat or open), of another instrument, or none at all.
Position(token, quantity) == [instrument_token |-> token, quantity |-> quantity]
PositionLists ==
  { <<>>,
    <<Position(config.instrumentToken + 1, 5)>>,
    <<Position(config.instrumentToken, 0)>>,
    <<Position(config.instrumentToken + 1, 5), Position(config.instrumentToken, 2)>> }

\* positions.find(p => p.instrument_token === this.config.instrumentToken)
FindPosition(positions) ==
  LET hits == SelectSeq(positions,
                LAMBDA q : q.instrument_token = config.instrumentToken)
  IN  IF hits = <<>> THEN None ELSE Some(Head(hits))

\* -------------------------------------------------------------- frames
IdleFrame ==
  [op |-> "idle", pc |-> "idle", result |-> "none", calls |-> <<>>,
   candles1h |-> None, candles15m |-> None, orders |-> None,
   signal |-> None, tradeId |-> None, trade |-> None,
   closedTrades |-> <<>>, seen |-> <<>>, cursor |-> 0,
   pre |-> [trades |-> <<>>, activeTrades |-> <<>>],
   overlap |-> {}]

\* A method is entered: its locals are fresh, the state it found is kept.
Enter(op, pc) ==
  [IdleFrame EXCEPT !.op = op, !.pc = pc,
     !.pre = [trades |-> trades, activeTrades |-> activeTrades]]

\* The invocations that are suspended at an await.
InFlight == {q \in Procs : frame[q].pc \notin {"idle", "done"}}

\* No invocation is in flight: the host serializes the calls.
Quiet == \A q \in Procs : frame[q].op = "idle"

Init ==
  /\ config \in Configs
  /\ trades = <<>>
  /\ activeTrades = <<>>
  /\ clock = 0
  /\ gwOrderSeq = 0
  /\ frame = [p \in Procs |-> IdleFrame]
  /\ closedLog = NoLog
  /\ probe = None

\* ------------------------------------------------- executeTradeSignals
\* Variant: the gate compares with > instead of >=.
MaxOpenReachedStrict(size) == size > config.maxOpenTrades

\* Variant: the gate closes one trade early.
MaxOpenReachedOneShort(size) == size + 1 >= config.maxOpenTrades

\* this.activeTrades.size >= this.config.maxOpenTrades
MaxOpenReached(size) == size >= config.maxOpenTrades

\* Variant: the gate tests the direction only.
SignalRejectedOnNone(signal) == signal.signal = "NONE"

\* !signal.signal || signal.confidence < this.config.minConfidence
SignalRejected(signal) ==
  signal.signal = "NONE" \/ signal.confidence < config.minConfidence

\* The argument executeTrade hands to placeBracketOrder
BracketOrder(signal) ==
  [quantity |-> config.quantity, side |-> signal.signal, price |-> signal.price,
   target |-> signal.target, stoploss |-> signal.stoploss]

\* Variant: the trade is recorded as PENDING (as TradingEngineService does).
NewTradePending(signal, order_id, now, later) ==
  [id |-> now, type |-> signal.signal, entryPrice |-> signal.price,
   quantity |-> config.quantity, target |-> signal.target,
   stoploss |-> signal.stoploss, orderId |-> order_id, status |-> "PENDING",
   confidence |-> signal.confidence, createdAt |-> later,
   closedAt |-> None, exitPrice |-> None, pnl |-> None]

\* The ExecutedTrade literal of executeTrade: the id is made of Date.now(),
\* createdAt is a new Date() taken a few lines later.
NewTrade(signal, order_id, now, later) ==
  [id |-> now, type |-> signal.signal, entryPrice |-> signal.price,
   quantity |-> config.quantity, target |-> signal.target,
   stoploss |-> signal.stoploss, orderId |-> order_id, status |-> "EXECUTED",
   confidence |-> signal.confidence, createdAt |-> later,
   closedAt |-> None, exitPrice |-> None, pnl |-> None]

\* executeTradeSignals from its entry to its first await: the open-trades
\* gate, then analyzeSymbol's call for the hourly candles.
ExecEnter(p) ==
  /\ gwOrderSeq < MaxTrades \/ MaxOpenReached(MapSize(activeTrades))
  /\ frame' = [frame EXCEPT ![p] =
       IF MaxOpenReached(MapSize(activeTrades))
         THEN [Enter("execute", "done") EXCEPT !.result = "null"]
         ELSE Enter("execute", "hour")]
  /\ UNCHANGED <<config, closedLog, probe, trades, activeTrades, clock, gwOrderSeq>>

\* The host calls executeTradeSignals.
ExecStart(p) == frame[p].op = "idle" /\ ExecEnter(p)

\* The gateway calls analyzeSymbol awaits, in order.
AnalysisCalls(quote) ==
  << Call("getHistoricalData", "hour", TRUE, None),
     Call("getHistoricalData", "15minute", TRUE, None),
     Call("getQuote", None, TRUE, quote) >>

\* The positions of an invocation inside analyzeSymbol: the gateway call
\* it is suspended at, by its place in AnalysisCalls.
AnalysisAwaits == << "hour", "quarter", "quote" >>
AwaitedCall(pc) == CHOOSE k \in 1..3 : AnalysisAwaits[k] = pc

\* The gateway call analyzeSymbol is suspended at rejects: analyzeSymbol
\* and executeTradeSignals rethrow the error.
ExecAnalyzeFail(p) ==
  /\ frame[p].op = "execute" /\ frame[p].pc \in {AnalysisAwaits[k] : k \in 1..3}
  /\ frame' = [frame EXCEPT ![p].pc = "done", ![p].result = "throw",
       ![p].candles1h = None, ![p].candles15m = None,
       ![p].calls = Append(@,
          [AnalysisCalls(None)[AwaitedCall(frame[p].pc)] EXCEPT !.ok = FALSE])]
  /\ UNCHANGED <<config, closedLog, probe, trades, activeTrades, clock, gwOrderSeq>>

\* getHistoricalData resolves with the hourly candles; analyzeSymbol asks
\* for the quarter-hour candles and awaits them.
ExecAnalyzeHour(p) ==
  /\ frame[p].op = "execute" /\ frame[p].pc = "hour"
  /\ \E candles1h \in CandleSeries :
       frame' = [frame EXCEPT
         ![p].calls = Append(@, AnalysisCalls(None)[1]),
         ![p].candles1h = Some(candles1h),
         ![p].pc = "quarter"]
  /\ UNCHANGED <<config, closedLog, probe, trades, activeTrades, clock, gwOrderSeq>>

\* getHistoricalData resolves with the quarter-hour candles;
\* analyzeSymbol asks for the quote and awaits it.
ExecAnalyzeQuarter(p) ==
  /\ frame[p].op = "execute" /\ frame[p].pc = "quarter"
  /\ \E candles15m \in CandleSeries15m :
       frame' = [frame EXCEPT
         ![p].calls = Append(@, AnalysisCalls(None)[2]),
         ![p].candles15m = Some(candles15m),
         ![p].pc = "quote"]
  /\ UNCHANGED <<config, closedLog, probe, trades, activeTrades, clock, gwOrderSeq>>

\* getQuote resolves and analyzeSymbol returns its signal; the signal is
\* gated and, when accepted, handed to executeTrade, which calls
\* placeBracketOrder and awaits it.
\* ExecAnalyzed is the step for the quote and the signal analyzeSymbol
\* has returned.
ExecAnalyzed(p, quote, signal) ==
  frame' = [frame EXCEPT
    ![p].calls = Append(@, AnalysisCalls(quote)[3]),
    ![p].candles1h = None, ![p].candles15m = None,
    ![p].signal = Some(signal),
    ![p].pc = IF SignalRejected(signal) THEN "done" ELSE "place",
    ![p].result = IF SignalRejected(signal) THEN "null" ELSE "none"]

ExecAnalyze(p) ==
  /\ frame[p].op = "execute" /\ frame[p].pc = "quote"
  /\ \E quote \in Quotes :
       ExecAnalyzed(p, quote, Analysis[frame[p].candles1h[1],
                                       frame[p].candles15m[1], quote])
  /\ UNCHANGED <<config, closedLog, probe, trades, activeTrades, clock, gwOrderSeq>>

\* placeBracketOrder rejects: executeTrade and executeTradeSignals rethrow.
ExecPlaceFail(p) ==
  /\ frame[p].op = "execute" /\ frame[p].pc = "place"
  /\ frame' = [frame EXCEPT ![p].pc = "done", ![p].result = "throw",
       ![p].calls = Append(@,
          Call("placeBracketOrder", BracketOrder(frame[p].signal[1]), FALSE, None))]
  /\ UNCHANGED <<config, closedLog, probe, trades, activeTrades, clock, gwOrderSeq>>

\* placeBracketOrder resolves with an order reference: the trade is built
\* and stored under its id.  executeTrade reads the clock for the id and
\* again for createdAt; the second reading may be a millisecond later.
ExecPlace(p) ==
  /\ frame[p].op = "execute" /\ frame[p].pc = "place"
  /\ gwOrderSeq < MaxTrades
  /\ \E later \in {clock, clock + 1} :
       LET order_id == gwOrderSeq + 1
           trade == NewTrade(frame[p].signal[1], order_id, clock, later)
           obj == order_id
       IN  /\ later <= MaxClock
           /\ clock' = later
           /\ gwOrderSeq' = order_id
           /\ trades' = Alloc(trades, obj, trade)
           /\ activeTrades' = MapSet(activeTrades, trade.id, obj)
           /\ frame' = [frame EXCEPT ![p].pc = "done", ![p].result = "trade",
                ![p].trade = Some(obj),
                ![p].calls = Append(@,
                   Call("placeBracketOrder", BracketOrder(frame[p].signal[1]),
                        TRUE, Some(order_id)))]
  /\ UNCHANGED <<config, closedLog, probe>>

\* ------------------------------------------------- monitorActiveTrades
\* The loop head: the iterator yields the entry at `cursor`, or the loop
\* ends and closedTrades is returned.  With an entry in hand the body calls
\* getPositions and awaits it.
LoopHead(f, map, cursor) ==
  IF cursor > Len(map)
    THEN [f EXCEPT !.cursor = cursor, !.pc = "done", !.result = "list",
                   !.tradeId = None, !.trade = None]
    ELSE [f EXCEPT !.cursor = cursor, !.pc = "positions",
                   !.tradeId = Some(map[cursor].id),
                   !.trade = Some(map[cursor].obj)]

MonitorStart(p) ==
  /\ frame[p].op = "idle"
  /\ frame' = [frame EXCEPT ![p] = LoopHead(Enter("monitor", "positions"),
                                            activeTrades, 1)]
  /\ UNCHANGED <<config, closedLog, probe, trades, activeTrades, clock, gwOrderSeq>>

\* Variant: a flat position counts as gone too.
PositionGoneOrFlat(position) ==
  position = None \/ position[1].quantity = 0

\* if (!position): the gateway lists no position of the instrument
PositionGone(position) == position = None

\* position.quantity === 0
PositionFlat(position) == position # None /\ position[1].quantity = 0

\* The trade as the loop body leaves it for the position found.
Monitored(trade, position, now) ==
  IF PositionGone(position)
    THEN [trade EXCEPT !.status = "CLOSED", !.closedAt = Some(now)]
  ELSE IF PositionFlat(position)
    THEN [trade EXCEPT !.status = "FILLED"]
  ELSE trade

\* Variant: a closed trade stays in the map.
MonitoredMapKept(map, tradeId, position) == map

\* The map as the loop body leaves it for the position found.
MonitoredMap(map, tradeId, position) ==
  IF PositionGone(position) THEN MapDelete(map, tradeId) ELSE map

\* The iterator's place after the body: deleting an entry at or before the
\* cursor moves the later entries up by one.
NextCursor(map, tradeId, position, cursor) ==
  IF Len(MonitoredMap(map, tradeId, position)) < Len(map)
     /\ MapIndex(map, tradeId) <= cursor
    THEN cursor
    ELSE cursor + 1

\* The Map iterator of another invocation when the entry at index i is
\* deleted: the entries after it move up by one, the iterator with them.
ShiftCursor(f, i) ==
  IF f.op = "monitor" /\ f.pc = "positions" /\ i > 0 /\ f.cursor >= i
    THEN [f EXCEPT !.cursor = @ - 1]
    ELSE f

\* getPositions rejects: the catch inside the loop logs the error and the
\* loop goes on to the next entry.
MonitorStepFail(p) ==
  /\ frame[p].op = "monitor" /\ frame[p].pc = "positions"
  /\ frame' = [frame EXCEPT ![p] =
       LoopHead([frame[p] EXCEPT
                   !.calls = Append(@, Call("getPositions", None, FALSE, None)),
                   !.seen = Append(@, frame[p].trade[1])],
                activeTrades, frame[p].cursor + 1)]
  /\ UNCHANGED <<config, closedLog, probe, trades, activeTrades, clock, gwOrderSeq>>

\* getPositions resolves with `positions`: the rest of the loop body, then
\* the loop head.
MonitorStepWith(p, positions) ==
  /\ frame[p].op = "monitor" /\ frame[p].pc = "positions"
  /\ LET position == FindPosition(positions)
         obj == frame[p].trade[1]
         tradeId == frame[p].tradeId[1]
         map == MonitoredMap(activeTrades, tradeId, position)
     IN  /\ trades' = [trades EXCEPT ![obj] = Monitored(@, position, clock)]
         /\ activeTrades' = map
         /\ closedLog' = IF PositionGone(position)
                            THEN LogClosed(closedLog, obj, trades[obj].pnl)
                            ELSE closedLog
         /\ frame' = [q \in Procs |->
              IF q = p
                THEN LoopHead([frame[p] EXCEPT
                   !.calls = Append(@, Call("getPositions", None, TRUE, positions)),
                   !.seen = Append(@, obj),
                   !.closedTrades =
                      IF PositionGone(position) THEN Append(@, obj) ELSE @],
                  map,
                  NextCursor(activeTrades, tradeId, position, frame[p].cursor))
              ELSE IF Len(map) < Len(activeTrades)
                THEN ShiftCursor(frame[q], MapIndex(activeTrades, tradeId))
              ELSE frame[q]]
  /\ UNCHANGED <<config, probe, clock, gwOrderSeq>>

MonitorStep(p) == \E positions \in PositionLists : MonitorStepWith(p, positions)

\* ---------------------------------------------------------- closeTrade
\* Trade ids a caller may pass: every id Date.now() can have produced.
TradeIds == 0..MaxClock

\* Entry up to the first await: the lookup, then getQuote is called.
CloseEnter(p, tradeId) ==
  /\ frame' = [frame EXCEPT ![p] =
       IF MapGet(activeTrades, tradeId) = None
         THEN [Enter("close", "done") EXCEPT !.result = "throw",
                 !.tradeId = Some(tradeId)]
         ELSE [Enter("close", "quote") EXCEPT !.tradeId = Some(tradeId),
                 !.trade = MapGet(activeTrades, tradeId)]]
  /\ UNCHANGED <<config, closedLog, probe, trades, activeTrades, clock, gwOrderSeq>>

\* The host calls closeTrade.
CloseStart(p, tradeId) == frame[p].op = "idle" /\ CloseEnter(p, tradeId)

\* getQuote rejects: the error is rethrown.
CloseQuoteFail(p) ==
  /\ frame[p].op = "close" /\ frame[p].pc = "quote"
  /\ frame' = [frame EXCEPT ![p].pc = "done", ![p].result = "throw",
       ![p].calls = Append(@, Call("getQuote", None, FALSE, None))]
  /\ UNCHANGED <<config, closedLog, probe, trades, activeTrades, clock, gwOrderSeq>>

\* Variant: every trade is settled as a BUY.
RealizedPnlLong(trade, exitPrice) ==
  (exitPrice - trade.entryPrice) * trade.quantity

\* Calculate PnL
RealizedPnl(trade, exitPrice) ==
  IF trade.type = "BUY"
    THEN (exitPrice - trade.entryPrice) * trade.quantity
    ELSE (trade.entryPrice - exitPrice) * trade.quantity

\* Update trade
Closed(trade, exitPrice, now) ==
  [trade EXCEPT !.status = "CLOSED", !.exitPrice = Some(exitPrice),
                !.pnl = Some(RealizedPnl(trade, exitPrice)),
                !.closedAt = Some(now)]

\* getQuote resolves: the trade is updated, then cancelOrder is called.
CloseQuote(p) ==
  /\ frame[p].op = "close" /\ frame[p].pc = "quote"
  /\ \E quote \in Quotes :
       /\ trades' = [trades EXCEPT ![frame[p].trade[1]] =
                       Closed(@, LastPriceOrZero(quote), clock)]
       /\ closedLog' = LogClosed(closedLog, frame[p].trade[1],
                          trades'[frame[p].trade[1]].pnl)
       /\ frame' = [frame EXCEPT ![p].pc = "cancel",
            ![p].calls = Append(@, Call("getQuote", None, TRUE, quote))]
  /\ UNCHANGED <<config, probe, activeTrades, clock, gwOrderSeq>>

\* cancelOrder rejects: the error is rethrown.
CloseCancelFail(p) ==
  /\ frame[p].op = "close" /\ frame[p].pc = "cancel"
  /\ frame' = [frame EXCEPT ![p].pc = "done", ![p].result = "throw",
       ![p].calls = Append(@,
          Call("cancelOrder", trades[frame[p].trade[1]].orderId, FALSE, None))]
  /\ UNCHANGED <<config, closedLog, probe, trades, activeTrades, clock, gwOrderSeq>>

\* cancelOrder resolves: the trade leaves the map and true is returned.
CloseCancel(p) ==
  /\ frame[p].op = "close" /\ frame[p].pc = "cancel"
  /\ activeTrades' = MapDelete(activeTrades, frame[p].tradeId[1])
  /\ frame' = [frame EXCEPT ![p].pc = "done", ![p].result = "true",
       ![p].calls = Append(@,
          Call("cancelOrder", trades[frame[p].trade[1]].orderId, TRUE, None))]
  /\ UNCHANGED <<config, closedLog, probe, trades, clock, gwOrderSeq>>

\* ---------------------------------------------------------- statistics
\* Number.prototype.toFixed(2) of num / den, as a count of hundredths: the
\* nearest one, the larger of two equally near.
ToFixed2(num, den) == (200 * num + den) \div (2 * den)

\* The sum of f[x] over the x in S
RECURSIVE SumOver(_, _)
SumOver(f, S) ==
  IF S = {} THEN 0
  ELSE LET x == CHOOSE y \in S : TRUE IN f[x] + SumOver(f, S \ {x})

\* trade.pnl when it is truthy, else nothing is added
PnlOrZero(pnl) == IF pnl = None THEN 0 ELSE pnl[1]

\* calculateTotalPnL: the pnl of the trades in the activeTrades map
calculateTotalPnL ==
  LET pnlOf == [o \in MapValues(activeTrades) |-> PnlOrZero(trades[o].pnl)]
  IN  SumOver(pnlOf, MapValues(activeTrades))

\* getStatistics; the three toFixed(2) strings are counts of hundredths.
getStatistics ==
  LET objs == MapValues(activeTrades)
      closedTrades == {o \in objs : trades[o].status = "CLOSED"}
      profitableTrades == {o \in closedTrades : PnlOrZero(trades[o].pnl) > 0}
      confidenceOf == [o \in objs |-> trades[o].confidence]
  IN  [activeTradesCount |-> Cardinality(objs \ closedTrades),
       closedTradesCount |-> Cardinality(closedTrades),
       profitableTradesCount |-> Cardinality(profitableTrades),
       winRate |->
         IF Cardinality(closedTrades) > 0
           THEN ToFixed2(Cardinality(profitableTrades) * 100,
                         Cardinality(closedTrades))
           ELSE 0,
       totalPnL |-> ToFixed2(calculateTotalPnL, 1),
       avgConfidence |->
         IF Cardinality(objs) > 0
           THEN ToFixed2(SumOver(confidenceOf, objs), Cardinality(objs))
           ELSE 0]

\* ------------------------------------------------------------ the host
\* The caller takes the outcome (a value or an error) of a finished call.
Return(p) ==
  /\ frame[p].pc = "done"
  /\ frame' = [frame EXCEPT ![p] = IdleFrame]
  /\ trades' = Reclaim(trades, activeTrades, frame')
  /\ UNCHANGED <<config, closedLog, probe, activeTrades, clock, gwOrderSeq>>

\* A millisecond passes.
Tick ==
  /\ clock < MaxClock
  /\ clock' = clock + 1
  /\ UNCHANGED <<config, closedLog, probe, trades, activeTrades, gwOrderSeq, frame>>

\* A step of an invocation in flight.
Step(p) ==
  \/ ExecAnalyzeFail(p) \/ ExecAnalyzeHour(p) \/ ExecAnalyzeQuarter(p)
  \/ ExecAnalyze(p) \/ ExecPlaceFail(p) \/ ExecPlace(p)
  \/ MonitorStepFail(p) \/ MonitorStep(p)
  \/ CloseQuoteFail(p) \/ CloseQuote(p) \/ CloseCancelFail(p) \/ CloseCancel(p)
  \/ Return(p)

\* The host starts a call only when none is in flight (spec section 5).
Next ==
  \/ \E p \in Serial : Quiet /\ ExecStart(p)
  \/ \E p \in Serial : Quiet /\ MonitorStart(p)
  \/ \E p \in Serial, tradeId \in TradeIds : Quiet /\ CloseStart(p, tradeId)
  \/ \E p \in Serial : Step(p)
  \/ Tick

Spec == Init /\ [][Next]_vars

\* The same executor, with the history of closed trades kept.
InitStats ==
  /\ config \in Configs
  /\ trades = <<>>
  /\ activeTrades = <<>>
  /\ clock = 0
  /\ gwOrderSeq = 0
  /\ frame = [p \in Procs |-> IdleFrame]
  /\ closedLog = EmptyLog
  /\ probe = None

SpecStats == InitStats /\ [][Next]_vars

\* ------------------------------------------- a host that does not wait
\* monitorActiveTrades is entered whatever the other invocations are doing;
\* each invocation remembers which others were suspended while it ran.
MonitorStartAny(p) ==
  /\ frame[p].op = "idle"
  /\ frame' = [q \in Procs |->
       IF q = p
         THEN [LoopHead(Enter("monitor", "positions"), activeTrades, 1)
                 EXCEPT !.overlap = InFlight]
       ELSE IF q \in InFlight
         THEN [frame[q] EXCEPT !.overlap = @ \cup {p}]
       ELSE frame[q]]
  /\ UNCHANGED <<config, closedLog, probe, trades, activeTrades, clock, gwOrderSeq>>

\* A step of a monitorActiveTrades invocation in flight.
StepMonitors(p) == MonitorStepFail(p) \/ MonitorStep(p) \/ Return(p)

\* n calls of executeTradeSignals, a millisecond apart, have each recorded
\* a trade for the same accepted signal.
Recorded(n, signal) ==
  /\ n <= config.maxOpenTrades /\ n <= MaxClock + 1
  /\ ~SignalRejected(signal)
  /\ trades = [o \in 1..n |-> NewTrade(signal, o, o - 1, o - 1)]
  /\ activeTrades = [o \in 1..n |-> [id |-> o - 1, obj |-> o]]
  /\ clock = Max2(n - 1, 0)
  /\ gwOrderSeq = n

\* The idle executor after n calls of executeTradeSignals, a millisecond
\* apart, have each recorded a trade for the same accepted signal.
InitMonitors ==
  /\ config \in Configs
  /\ \E n \in 0..MaxTrades, candles1h \in CandleSeries,
        candles15m \in CandleSeries15m, quote \in Quotes :
       Recorded(n, Analysis[candles1h, candles15m, quote])
  /\ frame = [p \in Procs |-> IdleFrame]
  /\ closedLog = NoLog
  /\ probe = None

\* Monitor calls are not serialized.
NextMonitors ==
  \/ \E p \in Procs : MonitorStartAny(p)
  \/ \E p \in Procs : StepMonitors(p)
  \/ Tick

SpecMonitors == InitMonitors /\ [][NextMonitors]_vars

\* --------------------------------------- concurrent executeTradeSignals
\* executeTradeSignals is entered while other invocations may be suspended
\* at their awaits.
ExecStartAny(p) ==
  /\ frame[p].op = "idle"
  /\ gwOrderSeq < MaxTrades \/ MaxOpenReached(MapSize(activeTrades))
  /\ frame' = [q \in Procs |->
       IF q = p
         THEN IF MaxOpenReached(MapSize(activeTrades))
                THEN [Enter("execute", "done") EXCEPT
                        !.result = "null", !.overlap = InFlight]
                ELSE [Enter("execute", "hour") EXCEPT !.overlap = InFlight]
       ELSE IF q \in InFlight
         THEN [frame[q] EXCEPT !.overlap = @ \cup {p}]
       ELSE frame[q]]
  /\ UNCHANGED <<config, closedLog, probe, trades, activeTrades, clock, gwOrderSeq>>

\* A step of an executeTradeSignals invocation in flight.
StepExecutes(p) ==
  \/ ExecAnalyzeFail(p) \/ ExecAnalyzeHour(p) \/ ExecAnalyzeQuarter(p)
  \/ ExecAnalyze(p) \/ ExecPlaceFail(p) \/ ExecPlace(p)
  \/ Return(p)

\* executeTradeSignals calls are not serialized.
NextExecutes ==
  \/ \E p \in Procs : ExecStartAny(p)
  \/ \E p \in Procs : StepExecutes(p)
  \/ Tick

SpecExecutes == InitMonitors /\ [][NextExecutes]_vars

\* ----------------------------------------------------- the HTTP routes
\* Each /automatic-trade handler constructs an AutomaticTradeExecutor of its
\* own (new Map() of active trades), calls one method of it and answers;
\* when the handler returns nothing refers to that executor any more.  In
\* this specification activeTrades and trades belong to the executor of the
\* request in progress, and probe is what the HTTP client has seen: the
\* trades the execute route returned, the ids the close route confirmed,
\* and the last response.

\* getActiveTrades: Array.from(this.activeTrades.values())
getActiveTrades == [i \in 1..Len(activeTrades) |-> trades[activeTrades[i].obj]]

Response(route, status, body) == [route |-> route, status |-> status, body |-> body]

\* The handler returns: the response is sent, the executor is dropped.
Respond(p, response, opened, closed) ==
  /\ probe' = [opened |-> probe.opened \cup opened,
               closed |-> probe.closed \cup closed,
               last |-> Some(response)]
  /\ frame' = [frame EXCEPT ![p] = IdleFrame]
  /\ activeTrades' = <<>>
  /\ trades' = <<>>
  /\ UNCHANGED <<config, closedLog, clock, gwOrderSeq>>

\* A handler from the request to its await of
\* import('../services/automatic-trade-executor'): the request has passed
\* the checks, no executor exists yet and no response is sent.
Request(p, route, tradeId) ==
  /\ frame[p].op = "idle"
  /\ frame' = [frame EXCEPT ![p] =
       [IdleFrame EXCEPT !.op = route, !.pc = "import", !.tradeId = tradeId]]
  /\ UNCHANGED <<config, closedLog, probe, trades, activeTrades, clock, gwOrderSeq>>

\* The handler of route is suspended at its import.
Importing(p, route) == frame[p].op = route /\ frame[p].pc = "import"

\* POST /automatic-trade/execute arrives.
RouteExecute(p) ==
  /\ gwOrderSeq < MaxTrades
  /\ Request(p, "POST /automatic-trade/execute", None)

\* The import has resolved: new executor, executeTradeSignals is called and
\* awaited.
RouteExecuteCall(p) ==
  /\ Importing(p, "POST /automatic-trade/execute")
  /\ ExecEnter(p)

\* executeTradeSignals has settled: res.json({status, trade}), or status
\* 500 when it threw.
RouteExecuteRespond(p) ==
  /\ frame[p].op = "execute" /\ frame[p].pc = "done"
  /\ IF frame[p].result = "throw"
       THEN Respond(p, Response("execute", 500, None), {}, {})
     ELSE IF frame[p].result = "trade"
       THEN Respond(p, Response("execute", 200, Some(trades[frame[p].trade[1]])),
                    {trades[frame[p].trade[1]]}, {})
     ELSE Respond(p, Response("execute", 200, None), {}, {})

\* GET /automatic-trade/active arrives.
RouteActive(p) == Request(p, "GET /automatic-trade/active", None)

\* The import has resolved: new executor, getActiveTrades, res.json.
RouteActiveRespond(p) ==
  /\ Importing(p, "GET /automatic-trade/active")
  /\ Respond(p, Response("active", 200, getActiveTrades), {}, {})

\* GET /automatic-trade/statistics arrives.
RouteStatistics(p) == Request(p, "GET /automatic-trade/statistics", None)

\* The import has resolved: new executor, getStatistics, res.json.
RouteStatisticsRespond(p) ==
  /\ Importing(p, "GET /automatic-trade/statistics")
  /\ Respond(p, Response("statistics", 200, getStatistics), {}, {})

\* POST /automatic-trade/close arrives with a tradeId.
RouteClose(p, tradeId) ==
  Request(p, "POST /automatic-trade/close", Some(tradeId))

\* The import has resolved: new executor, closeTrade(tradeId) is called and
\* awaited.
RouteCloseCall(p) ==
  /\ Importing(p, "POST /automatic-trade/close")
  /\ CloseEnter(p, frame[p].tradeId[1])

\* closeTrade has settled: res.json({status, closed}), or status 500 with
\* the error when it threw.
RouteCloseRespond(p) ==
  /\ frame[p].op = "close" /\ frame[p].pc = "done"
  /\ IF frame[p].result = "true"
       THEN Respond(p, Response("close", 200, frame[p].tradeId), {},
                    {frame[p].tradeId[1]})
       ELSE Respond(p, Response("close", 500, frame[p].tradeId), {}, {})

InitRoutes ==
  /\ config \in Configs
  /\ trades = <<>>
  /\ activeTrades = <<>>
  /\ clock = 0
  /\ gwOrderSeq = 0
  /\ frame = [p \in Procs |-> IdleFrame]
  /\ closedLog = NoLog
  /\ probe = [opened |-> {}, closed |-> {}, last |-> None]

\* The requests are handled one at a time.  closeTrade never gets past its
\* lookup here, so its later steps are not among the actions.
NextRoutes ==
  \/ \E p \in Serial : Quiet /\ RouteExecute(p)
  \/ \E p \in Serial : RouteExecuteCall(p)
  \/ \E p \in Serial : ExecAnalyzeFail(p)
  \/ \E p \in Serial : ExecAnalyzeHour(p)
  \/ \E p \in Serial : ExecAnalyzeQuarter(p)
  \/ \E p \in Serial : ExecAnalyze(p)
  \/ \E p \in Serial : ExecPlaceFail(p)
  \/ \E p \in Serial : ExecPlace(p)
  \/ \E p \in Serial : RouteExecuteRespond(p)
  \/ \E p \in Serial : Quiet /\ RouteActive(p)
  \/ \E p \in Serial : RouteActiveRespond(p)
  \/ \E p \in Serial : Quiet /\ RouteStatistics(p)
  \/ \E p \in Serial : RouteStatisticsRespond(p)
  \/ \E p \in Serial, tradeId \in TradeIds : Quiet /\ RouteClose(p, tradeId)
  \/ \E p \in Serial : RouteCloseCall(p)
  \/ \E p \in Serial : RouteCloseRespond(p)
  \/ Tick

SpecRoutes == InitRoutes /\ [][NextRoutes]_vars

\* ------------------------------------------ positions reported closed
\* The position lists by which the gateway reports the traded position as
\* closed: no position of the instrument, or one with quantity 0.
ClosedPositionLists ==
  {positions \in PositionLists :
     PositionGone(FindPosition(positions)) \/ PositionFlat(FindPosition(positions))}

\* The idle executor holding n >= 1 open trades, recorded a millisecond
\* apart; the history of closed trades is kept.
InitClosed ==
  /\ config \in Configs
  /\ \E n \in 1..MaxTrades, candles1h \in CandleSeries,
        candles15m \in CandleSeries15m, quote \in Quotes :
       Recorded(n, Analysis[candles1h, candles15m, quote])
  /\ frame = [p \in Procs |-> IdleFrame]
  /\ closedLog = EmptyLog
  /\ probe = None

\* monitorActiveTrades is called again and again, every getPositions call
\* succeeds and reports the position closed.
NextClosed ==
  \/ \E p \in Serial : Quiet /\ MonitorStart(p)
  \/ \E p \in Serial, positions \in ClosedPositionLists :
       MonitorStepWith(p, positions)
  \/ \E p \in Serial : Return(p)

\* Every monitor call that was started runs to its end, and another call
\* follows it.
SpecClosed == InitClosed /\ [][NextClosed]_vars /\ WF_vars(NextClosed)

\* ------------------------------------------- the strategy on its own
\* A freshly constructed executor, left alone while a function of the
\* strategy is evaluated.
ExecutorAtRest ==
  /\ config \in {c \in Configs : c.minConfidence = minConfidenceThreshold}
  /\ trades = <<>>
  /\ activeTrades = <<>>
  /\ clock = 0
  /\ gwOrderSeq = 0
  /\ frame = [p \in Procs |-> IdleFrame]
  /\ closedLog = NoLog

\* Every record of ten votes, the arguments calculateConfidence and
\* determineFinalSignal are defined on.  (runAllSignals returns those of
\* them in which the two MACD indicators are null.)
AllVotes == [1..Len(SignalKeys) -> {"BUY", "SELL", "NONE"}]

InitConsensus ==
  /\ ExecutorAtRest
  /\ probe \in {[fn |-> "signals", signals |-> v] : v \in AllVotes}

\* analyzeSymbol, steps 3 and 4: calculateConfidence, determineFinalSignal
Consensus ==
  /\ probe.fn = "signals"
  /\ probe' =
       LET conf == calculateConfidence(probe.signals)
       IN  [fn |-> "consensus", signals |-> probe.signals,
            confidence |-> conf.confidence,
            matchedSignals |-> conf.matchedSignals,
            finalSignal |-> determineFinalSignal(probe.signals, conf.confidence)]
  /\ UNCHANGED <<config, closedLog, trades, activeTrades, clock, gwOrderSeq, frame>>

NextConsensus == Consensus

SpecConsensus == InitConsensus /\ [][NextConsensus]_vars

\* Hourly candle series the gateway may answer with: none, 13 to 16 flat
\* candles of true range 0, 2, 14 or 28, one whose second candle has a
\* true range of 30, one whose last candle gaps up by 30, and the two
\* turns, also at seven times the prices.  The means taken over them are
\* whole numbers.
RiskCandleSeries ==
  { Flat(0, 0, 0, 0), Flat(13, 107, 93, 100), Flat(14, 107, 93, 100),
    Flat(14, 114, 86, 100), Flat(15, 107, 93, 100), Flat(15, 101, 99, 100),
    Flat(16, 101, 99, 100), Flat(15, 100, 100, 100),
    [i \in 1..16 |-> IF i = 2 THEN Candle(130, 100, 100)
                               ELSE Candle(107, 93, 100)],
    [i \in 1..15 |-> IF i = 15 THEN Candle(130, 128, 129)
                                ELSE Candle(101, 99, 100)],
    Reversal1h, Mirror(Reversal1h, 200),
    Scale(Reversal1h, 7), Scale(Mirror(Reversal1h, 200), 7) }

\* Quarter-hour candle series the gateway may answer with: none, flat, a
\* last candle that gaps up, and the two of the executor.
RiskCandleSeries15m ==
  { Flat(0, 0, 0, 0), Flat(15, 107, 93, 100),
    [i \in 1..15 |-> IF i = 15 THEN Candle(130, 128, 129)
                                ELSE Candle(101, 99, 100)],
    Breakout15m, Breakdown15m }

\* Quotes the gateway may answer with: no entry, or a last price.
RiskQuotes == { None, Some(2), Some(14), Some(100) }

InitRisk ==
  /\ ExecutorAtRest
  /\ probe \in {[fn |-> "gateway", candles1h |-> c, candles15m |-> d, quote |-> q] :
                  c \in RiskCandleSeries, d \in RiskCandleSeries15m, q \in RiskQuotes}

\* UltimateStrategy.analyzeSymbol on what the gateway answered
Analyze ==
  /\ probe.fn = "gateway"
  /\ probe' = [fn |-> "analyzeSymbol", candles1h |-> probe.candles1h,
               atr |-> calculateATR(probe.candles1h, AtrPeriod),
               result |-> analyzeSymbol(probe.candles1h, probe.candles15m,
                                        probe.quote)]
  /\ UNCHANGED <<config, closedLog, trades, activeTrades, clock, gwOrderSeq, frame>>

\* AIMarketAnalysisService takes the ATR of the same candles
AnalyzeMarket ==
  /\ probe.fn = "gateway"
  /\ probe' = [fn |-> "analyzeMarket", candles1h |-> probe.candles1h,
               atr |-> calculateATRMarket(probe.candles1h, AtrPeriod)]
  /\ UNCHANGED <<config, closedLog, trades, activeTrades, clock, gwOrderSeq, frame>>

NextRisk == Analyze \/ AnalyzeMarket

SpecRisk == InitRisk /\ [][NextRisk]_vars

\* n candles whose close starts at 100, rises by up for the first k changes
\* and falls by down for the rest.
Ramp(n, k, up, down) ==
  [i \in 1..n |->
     LET c == IF i - 1 <= k THEN 100 + up * (i - 1)
              ELSE 100 + up * k - down * (i - 1 - k)
     IN  Candle(c + 1, c - 1, c)]

\* Candle series of 14 to 16 closes handed to the detector; none has an
\* RSI of exactly 30 or 70.
RsiCandleSeries ==
  { Ramp(n, k, up, down) :
      n \in (RsiPeriod)..(RsiPeriod + 2), k \in 0..(RsiPeriod + 1),
      up \in {0, 1, 3}, down \in {0, 1} }

InitRSI ==
  /\ ExecutorAtRest
  /\ probe \in {[fn |-> "candles", candles |-> c] : c \in RsiCandleSeries}

\* runAllSignals: rsi_1h = detectRSI(candles1h, 14)
DetectRSI ==
  /\ probe.fn = "candles"
  /\ probe' = [fn |-> "detectRSI", candles |-> probe.candles,
               rsi |-> calculateRSI(probe.candles, RsiPeriod),
               signal |-> detectRSI(probe.candles, RsiPeriod)]
  /\ UNCHANGED <<config, closedLog, trades, activeTrades, clock, gwOrderSeq, frame>>

NextRSI == DetectRSI

SpecRSI == InitRSI /\ [][NextRSI]_vars

\* n candles closing at c, the last one at c + d.
Jump(n, c, d) ==
  [i \in 1..n |-> IF i = n THEN Candle(c + d + 1, c + d - 1, c + d)
                           ELSE Candle(c + 1, c - 1, c)]

\* Candle series of 20 to MaxCandles candles handed to the detector: flat,
\* or with a last close 1755 (= 5 * 13 * 27) above or below the others;
\* and the two turns.
MacdCandleSeries ==
  { Jump(n, c, d) : n \in 20..MaxCandles, c \in {2000, 2500, 3000},
                    d \in {-1755, 0, 1755} }
    \cup { Reversal1h, Mirror(Reversal1h, 200) }

InitMACD ==
  /\ ExecutorAtRest
  /\ probe \in {[fn |-> "candles", candles |-> c] : c \in MacdCandleSeries}

\* runAllSignals: macd_1h = detectMACD(candles1h)
DetectMACD ==
  /\ probe.fn = "candles"
  /\ probe' = [fn |-> "detectMACD", candles |-> probe.candles,
               macd |-> TenThousandths(MacdOf(Closes(probe.candles))),
               signal |-> detectMACD(probe.candles)]
  /\ UNCHANGED <<config, closedLog, trades, activeTrades, clock, gwOrderSeq, frame>>

NextMACD == DetectMACD

SpecMACD == InitMACD /\ [][NextMACD]_vars

\* --------------------------------------------------- OptionsTradeService
\* Math.floor(a / b) and Math.ceil(a / b) for whole a >= 0, b > 0
FloorDiv(a, b) == a \div b
CeilDiv(a, b) == (a + b - 1) \div b

\* The values the loop variable `strike` takes: minStrike, then steps of
\* strikeInterval while strike <= maxStrike.
StrikeSteps(minStrike, maxStrike, strikeInterval) ==
  [k \in 1..((maxStrike - minStrike) \div strikeInterval + 1) |->
     minStrike + (k - 1) * strikeInterval]

\* Variant: a strike of 0 is kept.
getAvailableStrikesFromZero(basePrice, strikeInterval) ==
  LET minStrike == FloorDiv(basePrice, strikeInterval) * strikeInterval - 500
      maxStrike == CeilDiv(basePrice, strikeInterval) * strikeInterval + 500
  IN  SelectSeq(StrikeSteps(minStrike, maxStrike, strikeInterval),
                LAMBDA strike : strike >= 0)

getAvailableStrikes(basePrice, strikeInterval) ==
  LET minStrike == FloorDiv(basePrice, strikeInterval) * strikeInterval - 500
      maxStrike == CeilDiv(basePrice, strikeInterval) * strikeInterval + 500
  IN  SelectSeq(StrikeSteps(minStrike, maxStrike, strikeInterval),
                LAMBDA strike : strike > 0)

\* Whole base prices and strike intervals the ladder is asked for.
BasePrices == {1, 99, 100, 101, 450, 500, 501, 1000, 2749, 2750, 2800, 20000}
StrikeIntervals == {25, 50, 100, 150, 250, 500, 1000, 5000}

InitStrikes ==
  /\ ExecutorAtRest
  /\ probe \in {[fn |-> "arguments", basePrice |-> b, strikeInterval |-> i] :
                  b \in BasePrices, i \in StrikeIntervals}

GetAvailableStrikes ==
  /\ probe.fn = "arguments"
  /\ probe' = [fn |-> "getAvailableStrikes", basePrice |-> probe.basePrice,
               strikeInterval |-> probe.strikeInterval,
               strikes |-> getAvailableStrikes(probe.basePrice,
                                               probe.strikeInterval)]
  /\ UNCHANGED <<config, closedLog, trades, activeTrades, clock, gwOrderSeq, frame>>

NextStrikes == GetAvailableStrikes

SpecStrikes == InitStrikes /\ [][NextStrikes]_vars

\* ------------------------------------------------------------ Date values
\* A Date is [day, minute]: the local calendar day, counted in days since
\* 1970-01-01 (a Thursday), and the local minute of that day.  Months are
\* numbered from 0 as getMonth() numbers them.

\* day number of year-month-date, month counted from 1 (proleptic Gregorian)
DaysFromCivil(year, month, date) ==
  LET y == IF month <= 2 THEN year - 1 ELSE year
      era == y \div 400
      yoe == y - era * 400
      mp == IF month > 2 THEN month - 3 ELSE month + 9
      doy == ((153 * mp + 2) \div 5) + date - 1
      doe == yoe * 365 + (yoe \div 4) - (yoe \div 100) + doy
  IN  era * 146097 + doe - 719468

\* [year, month, date] of a day number, month counted from 1
CivilFromDays(n) ==
  LET z == n + 719468
      era == z \div 146097
      doe == z - era * 146097
      yoe == (doe - (doe \div 1460) + (doe \div 36524) - (doe \div 146096)) \div 365
      doy == doe - (365 * yoe + (yoe \div 4) - (yoe \div 100))
      mp == (5 * doy + 2) \div 153
      month == IF mp < 10 THEN mp + 3 ELSE mp - 9
  IN  [year |-> yoe + era * 400 + (IF month <= 2 THEN 1 ELSE 0),
       month |-> month,
       date |-> doy - ((153 * mp + 2) \div 5) + 1]

getDay(d) == (d.day + 4) % 7
getFullYear(d) == CivilFromDays(d.day).year
getMonth(d) == CivilFromDays(d.day).month - 1
getDate(d) == CivilFromDays(d.day).date

\* new Date(year, monthIndex, date): local midnight; a monthIndex of 12 is
\* January of the next year and a date of 0 the last day of the month before.
NewDate(year, monthIndex, date) ==
  [day |-> DaysFromCivil(year + (monthIndex \div 12), (monthIndex % 12) + 1, 1)
             + date - 1,
   minute |-> 0]

\* d.setDate(date): the day of the month is replaced, the time of day kept,
\* and a date past the end of the month runs into the next month.
setDate(d, date) ==
  [day |-> NewDate(getFullYear(d), getMonth(d), date).day, minute |-> d.minute]

\* a < b on Date values
DateBefore(a, b) == a.day < b.day \/ (a.day = b.day /\ a.minute < b.minute)

\* d.toISOString().split('T')[0]: the calendar day in UTC, for a local
\* zone that is `offset` minutes east of UTC.
ISODate(d, offset) ==
  LET utc == d.day * 1440 + d.minute - offset
  IN  CivilFromDays((utc - (utc % 1440)) \div 1440)

getNextExpiryDate(expiryType, today, offset) ==
  IF expiryType = "WEEKLY"
  THEN LET daysUntilThursday == (4 - getDay(today) + 7) % 7
       IN  ISODate(setDate(today, getDate(today)
                     + (IF daysUntilThursday # 0 THEN daysUntilThursday ELSE 7)),
                   offset)
  ELSE LET lastDay == NewDate(getFullYear(today), getMonth(today) + 1, 0)
           daysUntilThursday == (4 - getDay(lastDay) + 7) % 7
           expiryDate == NewDate(getFullYear(lastDay), getMonth(lastDay),
                                 getDate(lastDay) - daysUntilThursday)
           nextMonth == NewDate(getFullYear(today), getMonth(today) + 1, 1)
           nextLastDay == NewDate(getFullYear(nextMonth), getMonth(nextMonth) + 1, 0)
           nextDaysUntilThursday == (4 - getDay(nextLastDay) + 7) % 7
       IN  IF DateBefore(expiryDate, today)
           THEN ISODate(NewDate(getFullYear(nextLastDay), getMonth(nextLastDay),
                                getDate(nextLastDay) - nextDaysUntilThursday),
                        offset)
           ELSE ISODate(expiryDate, offset)

\* The current dates tried: every day of 2024 and 2025, at midnight and at
\* 10:00 local time, in UTC and in a zone 5 h 30 min east of it.
FirstDay == DaysFromCivil(2024, 1, 1)
LastDay == DaysFromCivil(2025, 12, 31)
Minutes == {0, 600}
Offsets == {0, 330}

InitExpiry ==
  /\ ExecutorAtRest
  /\ probe \in {[fn |-> "today", expiryType |-> t,
                  today |-> [day |-> n, minute |-> m], offset |-> o] :
                  t \in {"WEEKLY", "MONTHLY"}, n \in FirstDay..LastDay,
                  m \in Minutes, o \in Offsets}

GetNextExpiryDate ==
  /\ probe.fn = "today"
  /\ probe' = [fn |-> "getNextExpiryDate", expiryType |-> probe.expiryType,
               today |-> probe.today, offset |-> probe.offset,
               expiry |-> getNextExpiryDate(probe.expiryType, probe.today,
                                            probe.offset)]
  /\ UNCHANGED <<config, closedLog, trades, activeTrades, clock, gwOrderSeq, frame>>

NextExpiry == GetNextExpiryDate

SpecExpiry == InitExpiry /\ [][NextExpiry]_vars

\* ------------------------------------------------------- calculateGreeks
\* Numbers of the Greeks computation are kept in fixed point, as counts of
\* 1/Unit, rounded down after each multiplication.  A number is a record
\* [kind, v]: kind "finite" with the count v, or "NaN", "Infinity",
\* "-Infinity".  The arguments are chosen so that d1 is exact and the
\* 5-decimal rounding cannot change a delta's second decimal.
Unit == 100000

Finite(v) == [kind |-> "finite", v |-> v]
NaN == [kind |-> "NaN", v |-> 0]
Infinity == [kind |-> "Infinity", v |-> 0]
MinusInfinity == [kind |-> "-Infinity", v |-> 0]

\* a * b in fixed point, for b >= 0 (intermediate products below 2^31)
Mul(a, b) == (a * (b \div 1000) * 10 + ((a * (b % 1000)) \div 100)) \div 1000

\* 1 / den in fixed point
Reciprocal(den) ==
  (1000000000 \div den) * 10 + (((1000000000 % den) * 10) \div den)

\* Math.exp(-y) for y >= 0: the power series to 12 terms
RECURSIVE ExpSeries(_, _, _)
ExpSeries(y, k, term) ==
  IF k > 12 THEN 0
  ELSE LET next == Mul(term, y) \div k
       IN  (IF k % 2 = 0 THEN next ELSE 0 - next) + ExpSeries(y, k + 1, next)

ExpNeg(y) == Unit + ExpSeries(y, 1, Unit)

\* Math.sqrt(timeToExpiry / 365) for the expiries used, which are 0, 1 and
\* 4 years
SqrtYears(timeToExpiry) == CHOOSE root \in 0..2 : root * root * 365 = timeToExpiry

\* For x = NaN every intermediate value is NaN; for an infinite x both t
\* and d are 0, so prob is 0.
normalDistribution(x) ==
  IF x = NaN THEN NaN
  ELSE IF x = Infinity THEN Finite(Unit)
  ELSE IF x = MinusInfinity THEN Finite(0)
  ELSE LET t == Reciprocal(Unit + Mul(23164, Abs(x.v)))
           d == Mul(39894, ExpNeg(Mul(Abs(x.v), Abs(x.v)) \div 2))
           poly == 31938 + Mul(-35656 + Mul(178148 + Mul(-182126
                                 + Mul(133027, t), t), t), t)
           prob == Mul(Mul(d, t), poly)
       IN  Finite(IF x.v >= 0 THEN Unit - prob ELSE prob)

\* d1 = (ln(spot / strike) + (r + sigma^2 / 2) T) / (sigma sqrt(T)), with
\* volatility and riskFreeRate in percent.  A zero denominator gives 0 / 0
\* = NaN or a signed infinity; with T > 0 the logarithm is taken of 1 only.
GreeksD1(spotPrice, strikePrice, timeToExpiry, volatility, riskFreeRate) ==
  IF timeToExpiry = 0
  THEN IF spotPrice = strikePrice THEN NaN
       ELSE IF spotPrice > strikePrice THEN Infinity ELSE MinusInfinity
  ELSE Finite((Unit * (200 * riskFreeRate + volatility * volatility)
                 * SqrtYears(timeToExpiry)) \div (200 * volatility))

\* Math.round(delta * 100) / 100, as a count of hundredths
RoundDelta(delta) ==
  IF delta = NaN THEN NaN ELSE Finite((200 * delta.v + Unit) \div (2 * Unit))

\* delta = optionType === 'CE' ? N_d1 : N_d1 - 1
GreeksDelta(N_d1, optionType) ==
  IF N_d1 = NaN THEN NaN
  ELSE IF optionType = "CE" THEN N_d1 ELSE Finite(N_d1.v - Unit)

\* The delta of the returned Greeks.
calculateGreeks(spotPrice, strikePrice, timeToExpiry, volatility, riskFreeRate, optionType) ==
  LET d1 == GreeksD1(spotPrice, strikePrice, timeToExpiry, volatility,
                     riskFreeRate)
      N_d1 == normalDistribution(d1)
  IN  [delta |-> RoundDelta(GreeksDelta(N_d1, optionType))]

SpotPrices == {90, 100, 110}
StrikePrices == {100}
Expiries == {0, 365, 1460}
Volatilities == {10, 25, 50}
Rates == {-5, 0, 5, 10}

GreeksArguments ==
  {a \in [spotPrice : SpotPrices, strikePrice : StrikePrices,
          timeToExpiry : Expiries, volatility : Volatilities,
          riskFreeRate : Rates] :
     a.timeToExpiry > 0 => a.spotPrice = a.strikePrice}

InitGreeks ==
  /\ ExecutorAtRest
  /\ probe \in {[fn |-> "calculateGreeks", args |-> a, CE |-> None, PE |-> None] :
                  a \in GreeksArguments}

CalculateGreeks(optionType) ==
  /\ probe.fn = "calculateGreeks"
  /\ probe[optionType] = None
  /\ probe' = [probe EXCEPT ![optionType] =
                 Some(calculateGreeks(probe.args.spotPrice,
                                      probe.args.strikePrice,
                                      probe.args.timeToExpiry,
                                      probe.args.volatility,
                                      probe.args.riskFreeRate, optionType))]
  /\ UNCHANGED <<config, closedLog, trades, activeTrades, clock, gwOrderSeq, frame>>

NextGreeks == CalculateGreeks("CE") \/ CalculateGreeks("PE")

SpecGreeks == InitGreeks /\ [][NextGreeks]_vars

\* ------------------------------------------------------ createIronCondor
OptionContract(strikePrice, currentPrice) ==
  [strikePrice |-> strikePrice, currentPrice |-> currentPrice]

createIronCondor(longCall, shortCall, longPut, shortPut) ==
  LET callSpreadWidth == shortCall.strikePrice - longCall.strikePrice
      putSpreadWidth == shortPut.strikePrice - longPut.strikePrice
      totalCredit == shortCall.currentPrice + shortPut.currentPrice
                       - longCall.currentPrice - longPut.currentPrice
  IN  [maxProfit |-> totalCredit,
       maxLoss |-> Max2(callSpreadWidth, putSpreadWidth) - totalCredit,
       breakEvenLow |-> shortPut.strikePrice - totalCredit,
       breakEvenHigh |-> shortCall.strikePrice + totalCredit,
       contracts |-> <<longCall, shortCall, longPut, shortPut>>,
       netDebit |-> 0,
       netCredit |-> totalCredit]

\* The legs tried: short strikes 2700 / 2900 around the money, the long
\* strikes 100 or 200 further out, and two premiums per leg.
LongCalls == {OptionContract(k, p) : k \in {3000, 3100}, p \in {10, 20}}
ShortCalls == {OptionContract(2900, p) : p \in {40, 50}}
LongPuts == {OptionContract(k, p) : k \in {2500, 2600}, p \in {10, 15}}
ShortPuts == {OptionContract(2700, p) : p \in {40, 45}}

InitCondor ==
  /\ ExecutorAtRest
  /\ probe \in {[fn |-> "legs", longCall |-> lc, shortCall |-> sc,
                  longPut |-> lp, shortPut |-> sp] :
                  lc \in LongCalls, sc \in ShortCalls,
                  lp \in LongPuts, sp \in ShortPuts}

CreateIronCondor ==
  /\ probe.fn = "legs"
  /\ probe' = [fn |-> "createIronCondor",
               strategy |-> createIronCondor(probe.longCall, probe.shortCall,
                                             probe.longPut, probe.shortPut)]
  /\ UNCHANGED <<config, closedLog, trades, activeTrades, clock, gwOrderSeq, frame>>

NextCondor == CreateIronCondor

SpecCondor == InitCondor /\ [][NextCondor]_vars

\* --------------------------------------------------- TradingEngineService
\* In this specification activeTrades is TradingEngineService.activeTrades
\* and the gateway is its zerodhaClient.

\* calculateRiskReward of TradingEngineService: reward / risk as the
\* fraction [num, den], 0 when the risk is 0
EngineRiskReward(entry, target, stoploss) ==
  LET reward == Abs(target - entry)
      risk == Abs(entry - stoploss)
  IN  IF risk > 0 THEN [num |-> reward, den |-> risk] ELSE [num |-> 0, den |-> 1]

\* Variant: the floor is 1 instead of 1.5.
RiskRewardTooLowBelowOne(riskReward) == riskReward.num < riskReward.den

\* riskReward < 1.5
RiskRewardTooLow(riskReward) == 2 * riskReward.num < 3 * riskReward.den

TradingSignal(action, entry, target, stoploss) ==
  [action |-> action, quantity |-> 1, entry |-> entry, target |-> target,
   stoploss |-> stoploss]

\* Signals with risk:reward 1.5 (to buy and to sell), 1 and with no risk
\* at all.
EngineSignals ==
  { TradingSignal("BUY", 100, 103, 98), TradingSignal("BUY", 100, 102, 98),
    TradingSignal("BUY", 100, 103, 100), TradingSignal("SELL", 100, 97, 102) }

\* The arguments executeSignal hands to placeBracketOrder
EngineBracketOrder(signal) ==
  [quantity |-> signal.quantity, side |-> signal.action, price |-> signal.entry,
   target |-> signal.target, stoploss |-> signal.stoploss]

\* The AutomaticTrade literal of executeSignal: the id is made of
\* Date.now(), createdAt and updatedAt are each a new Date() of their own.
\* entryOrderId is orderResponse?.order_id: Some(id), or None when the
\* gateway's answer carries no order_id.
AutomaticTrade(signal, order_id, now, createdAt, updatedAt) ==
  [id |-> now, action |-> signal.action, entryPrice |-> signal.entry,
   targetPrice |-> signal.target, stoplossPrice |-> signal.stoploss,
   quantity |-> signal.quantity, entryOrderId |-> order_id,
   status |-> "PENDING", createdAt |-> createdAt, updatedAt |-> updatedAt,
   profit |-> None, profitPercent |-> None]

\* Entry up to the first await: the risk:reward floor, then the call of
\* placeBracketOrder.
EngineStart(p, signal) ==
  /\ frame[p].op = "idle"
  /\ gwOrderSeq < MaxTrades
  /\ frame' = [frame EXCEPT ![p] =
       IF RiskRewardTooLow(EngineRiskReward(signal.entry, signal.target,
                                            signal.stoploss))
         THEN [Enter("executeSignal", "done") EXCEPT
                 !.result = "null", !.signal = Some(signal)]
         ELSE [Enter("executeSignal", "place") EXCEPT !.signal = Some(signal)]]
  /\ UNCHANGED <<config, closedLog, probe, trades, activeTrades, clock, gwOrderSeq>>

\* placeBracketOrder rejects: the catch block returns null.
EnginePlaceFail(p) ==
  /\ frame[p].op = "executeSignal" /\ frame[p].pc = "place"
  /\ frame' = [frame EXCEPT ![p].pc = "done", ![p].result = "null",
       ![p].calls = Append(@,
          Call("placeBracketOrder", EngineBracketOrder(frame[p].signal[1]),
               FALSE, None))]
  /\ UNCHANGED <<config, closedLog, probe, trades, activeTrades, clock, gwOrderSeq>>

\* placeBracketOrder resolves, with the id of the order placed or with an
\* answer that has no order_id: the trade is built and stored under its id.
\* The three readings of the clock may each be a millisecond later than
\* the one before.
EnginePlace(p) ==
  /\ frame[p].op = "executeSignal" /\ frame[p].pc = "place"
  /\ gwOrderSeq < MaxTrades
  /\ \E createdAt \in {clock, clock + 1} : \E updatedAt \in {createdAt, createdAt + 1} :
     \E order_id \in {Some(gwOrderSeq + 1), None} :
       LET trade == AutomaticTrade(frame[p].signal[1], order_id, clock,
                                   createdAt, updatedAt)
           obj == gwOrderSeq + 1
       IN  /\ updatedAt <= MaxClock
           /\ clock' = updatedAt
           /\ gwOrderSeq' = gwOrderSeq + 1
           /\ trades' = Alloc(trades, obj, trade)
           /\ activeTrades' = MapSet(activeTrades, trade.id, obj)
           /\ frame' = [frame EXCEPT ![p].pc = "done", ![p].result = "trade",
                ![p].trade = Some(obj),
                ![p].calls = Append(@,
                   Call("placeBracketOrder",
                        EngineBracketOrder(frame[p].signal[1]),
                        TRUE, order_id))]
  /\ UNCHANGED <<config, closedLog, probe>>

\* Order books getOrders may resolve with: empty, or the entry order of the
\* first trade in one of its states.
Order(order_id, status) == [order_id |-> order_id, status |-> status]
OrderLists ==
  { <<>> } \cup
  { <<Order(1, status)>> : status \in {"OPEN", "COMPLETE", "CANCELLED", "REJECTED"} }

\* Trade books getTrades may resolve with: empty, or a fill of the first
\* entry order at 103.
Fill(order_id, price) == [order_id |-> order_id, price |-> price]
FillLists == { <<>>, <<Fill(1, 103)>> }

\* array.find(x => x.order_id === order_id), order_id being Some(id) or
\* None, the order_id of every entry of the list a number
FindOrder(list, order_id) ==
  LET hits == SelectSeq(list, LAMBDA x : Some(x.order_id) = order_id)
  IN  IF hits = <<>> THEN None ELSE Some(Head(hits))

\* monitorTrades up to its first await: getOrders is called.
EngineMonitorStart(p) ==
  /\ frame[p].op = "idle"
  /\ frame' = [frame EXCEPT ![p] = Enter("monitorTrades", "orders")]
  /\ UNCHANGED <<config, closedLog, probe, trades, activeTrades, clock, gwOrderSeq>>

\* getOrders resolves; getTrades is called and awaited.
EngineMonitorOrders(p) ==
  /\ frame[p].op = "monitorTrades" /\ frame[p].pc = "orders"
  /\ \E orders \in OrderLists :
       frame' = [frame EXCEPT ![p].pc = "fills", ![p].orders = Some(orders),
         ![p].calls = Append(@, Call("getOrders", None, TRUE, None))]
  /\ UNCHANGED <<config, closedLog, probe, trades, activeTrades, clock, gwOrderSeq>>

\* getOrders or getTrades rejects: the catch block logs the error and
\* monitorTrades returns.
EngineMonitorFail(p) ==
  /\ frame[p].op = "monitorTrades" /\ frame[p].pc \in {"orders", "fills"}
  /\ frame' = [frame EXCEPT ![p].pc = "done", ![p].result = "void",
       ![p].orders = None,
       ![p].calls = Append(@,
          Call(IF frame[p].pc = "orders" THEN "getOrders" ELSE "getTrades",
               None, FALSE, None))]
  /\ UNCHANGED <<config, closedLog, probe, trades, activeTrades, clock, gwOrderSeq>>

\* The body of monitorTrades' loop for one trade, the clock reading now:
\* a COMPLETE entry order makes the trade ENTRY_FILLED and, with a fill of
\* that order in the trade book, sets profit and profitPercent; a CANCELLED
\* or REJECTED one makes it CANCELLED.
EngineMonitored(trade, orders, fills, now) ==
  LET matchingOrder == FindOrder(orders, trade.entryOrderId)
      closingTrade == FindOrder(fills, trade.entryOrderId)
  IN  IF matchingOrder = None THEN trade
      ELSE IF matchingOrder[1].status = "COMPLETE"
        THEN IF closingTrade = None
               THEN [trade EXCEPT !.status = "ENTRY_FILLED", !.updatedAt = now]
               ELSE [trade EXCEPT !.status = "ENTRY_FILLED", !.updatedAt = now,
                       !.profit = Some((closingTrade[1].price - trade.entryPrice)
                                         * trade.quantity),
                       !.profitPercent =
                         Some(((closingTrade[1].price - trade.entryPrice) * 100)
                                \div trade.entryPrice)]
      ELSE IF matchingOrder[1].status \in {"CANCELLED", "REJECTED"}
        THEN [trade EXCEPT !.status = "CANCELLED", !.updatedAt = now]
      ELSE trade

\* getTrades resolves: the loop runs over activeTrades without a further
\* await.  Each pass reads the clock when it updates a trade; a reading
\* may be a millisecond later than the one before.
EngineMonitorFills(p) ==
  /\ frame[p].op = "monitorTrades" /\ frame[p].pc = "fills"
  /\ \E fills \in FillLists :
     \E now \in [1..MapSize(activeTrades) -> clock..MaxClock] :
       LET objs == [i \in 1..MapSize(activeTrades) |-> activeTrades[i].obj]
           After(i) == EngineMonitored(trades[objs[i]], frame[p].orders[1],
                                       fills, now[i])
           updated == {i \in 1..Len(objs) : After(i) # trades[objs[i]]}
       IN  /\ \A i \in 1..Len(objs) :
                /\ i \in updated \/ now[i] = (IF i = 1 THEN clock ELSE now[i - 1])
                /\ now[i] >= (IF i = 1 THEN clock ELSE now[i - 1])
                /\ now[i] <= (IF i = 1 THEN clock ELSE now[i - 1]) + 1
           /\ clock' = IF Len(objs) = 0 THEN clock ELSE now[Len(objs)]
           /\ trades' = [o \in DOMAIN trades |->
                IF \E i \in 1..Len(objs) : objs[i] = o
                  THEN After(CHOOSE i \in 1..Len(objs) : objs[i] = o)
                  ELSE trades[o]]
           /\ frame' = [frame EXCEPT ![p].pc = "done", ![p].result = "void",
                ![p].orders = None,
                ![p].calls = Append(@, Call("getTrades", None, TRUE, None))]
  /\ UNCHANGED <<config, closedLog, probe, activeTrades, gwOrderSeq>>

\* cancelTrade up to its await: false for an id that is not in
\* activeTrades and for a trade without an entry order id, else cancelOrder
\* is called with the trade's entry order.  !trade.entryOrderId holds of
\* no order id and of the id 0.
EngineCancelStart(p, tradeId) ==
  /\ frame[p].op = "idle"
  /\ frame' = [frame EXCEPT ![p] =
       IF \/ MapGet(activeTrades, tradeId) = None
          \/ trades[MapGet(activeTrades, tradeId)[1]].entryOrderId
               \in {None, Some(0)}
         THEN [Enter("cancelTrade", "done") EXCEPT
                 !.result = "false", !.tradeId = Some(tradeId)]
         ELSE [Enter("cancelTrade", "cancel") EXCEPT
                 !.tradeId = Some(tradeId),
                 !.trade = MapGet(activeTrades, tradeId)]]
  /\ UNCHANGED <<config, closedLog, probe, trades, activeTrades, clock, gwOrderSeq>>

\* cancelOrder rejects: the catch block returns false.
EngineCancelFail(p) ==
  /\ frame[p].op = "cancelTrade" /\ frame[p].pc = "cancel"
  /\ frame' = [frame EXCEPT ![p].pc = "done", ![p].result = "false",
       ![p].calls = Append(@,
          Call("cancelOrder", trades[frame[p].trade[1]].entryOrderId[1], FALSE,
               None))]
  /\ UNCHANGED <<config, closedLog, probe, trades, activeTrades, clock, gwOrderSeq>>

\* cancelOrder resolves: the trade is marked CANCELLED (it stays in
\* activeTrades) and cancelTrade returns true.
EngineCancel(p) ==
  /\ frame[p].op = "cancelTrade" /\ frame[p].pc = "cancel"
  /\ trades' = [trades EXCEPT ![frame[p].trade[1]] =
       [@ EXCEPT !.status = "CANCELLED", !.updatedAt = clock]]
  /\ frame' = [frame EXCEPT ![p].pc = "done", ![p].result = "true",
       ![p].calls = Append(@,
          Call("cancelOrder", trades[frame[p].trade[1]].entryOrderId[1], TRUE,
               None))]
  /\ UNCHANGED <<config, closedLog, probe, activeTrades, clock, gwOrderSeq>>

NextEngine ==
  \/ \E p \in Serial, signal \in EngineSignals : Quiet /\ EngineStart(p, signal)
  \/ \E p \in Serial : EnginePlaceFail(p)
  \/ \E p \in Serial : EnginePlace(p)
  \/ \E p \in Serial : Quiet /\ EngineMonitorStart(p)
  \/ \E p \in Serial : EngineMonitorOrders(p)
  \/ \E p \in Serial : EngineMonitorFail(p)
  \/ \E p \in Serial : EngineMonitorFills(p)
  \/ \E p \in Serial, tradeId \in TradeIds : Quiet /\ EngineCancelStart(p, tradeId)
  \/ \E p \in Serial : EngineCancelFail(p)
  \/ \E p \in Serial : EngineCancel(p)
  \/ \E p \in Serial : Return(p)
  \/ Tick

SpecEngine == Init /\ [][NextEngine]_vars

\* ============================================================== claims
\* Invocation p of method op has finished and its outcome is on hand.
Finished(p, op) == frame[p].op = op /\ frame[p].pc = "done"

\* The elements of a sequence
Range(s) == {s[i] : i \in 1..Len(s)}

\* The state invocation p found equals the state now.
Untouched(p) ==
  trades = frame[p].pre.trades /\ activeTrades = frame[p].pre.activeTrades

\* C1: with serialized calls the active set never holds more than
\* config.maxOpenTrades trades, and executeTradeSignals entered with the
\* active set full returns null, makes no gateway call and leaves the
\* active set as it was.
C1_OpenTradesCapped ==
  /\ MapSize(activeTrades) <= config.maxOpenTrades
  /\ \A p \in Procs :
       ( /\ Finished(p, "execute")
         /\ MapSize(frame[p].pre.activeTrades) >= config.maxOpenTrades )
       => /\ frame[p].result = "null"
          /\ frame[p].calls = <<>>
          /\ Untouched(p)

\* C1 witness: executeTradeSignals has returned after being entered with
\* maxOpenTrades trades in the active set.
C1_Witness ==
  \E p \in Procs :
    /\ Finished(p, "execute")
    /\ MapSize(frame[p].pre.activeTrades) = config.maxOpenTrades
    /\ frame[p].result = "null"

\* The signal passes the open gate as the claims word it.
Acceptable(signal) ==
  signal.signal \in {"BUY", "SELL"} /\ signal.confidence >= config.minConfidence

\* C2: executeTradeSignals goes on to place an order only for a BUY or
\* SELL signal whose confidence is at least config.minConfidence; for any
\* other signal it returns null, places no bracket order and leaves the
\* active set as it was.  Every trade the executor holds has type BUY or
\* SELL and confidence >= config.minConfidence.
C2_OpenGate ==
  /\ \A p \in Procs :
       (frame[p].op = "execute" /\ frame[p].signal # None) =>
         IF Acceptable(frame[p].signal[1])
           THEN frame[p].result # "null"
           ELSE /\ Finished(p, "execute")
                /\ frame[p].result = "null"
                /\ CallsOf(frame[p].calls, "placeBracketOrder") = <<>>
                /\ Untouched(p)
  /\ \A o \in DOMAIN trades :
       /\ trades[o].type \in {"BUY", "SELL"}
       /\ trades[o].confidence >= config.minConfidence

\* C2 witness: a BUY signal the strategy emitted (confidence 80) was turned
\* down by the executor because config.minConfidence is higher.
C2_Witness ==
  \E p \in Procs :
    /\ Finished(p, "execute")
    /\ frame[p].signal # None
    /\ frame[p].signal[1].signal = "BUY"
    /\ frame[p].signal[1].confidence < config.minConfidence
    /\ frame[p].result = "null"

\* C3: once a signal has passed the gate, a finished executeTradeSignals
\* has issued exactly one placeBracketOrder with the signal's side, price,
\* target and stoploss and the configured quantity; when it returns a
\* trade, that trade is the one object added to the active set, has status
\* EXECUTED, the gateway's order reference, the signal's entry price,
\* target, stoploss and confidence, and no closedAt, exitPrice or pnl.
C3_ExecutedTradeRecorded ==
  \A p \in Procs :
    ( /\ Finished(p, "execute")
      /\ frame[p].signal # None
      /\ frame[p].result # "null" ) =>
      LET signal == frame[p].signal[1]
          orders == CallsOf(frame[p].calls, "placeBracketOrder")
      IN  /\ Len(orders) = 1
          /\ orders[1].args =
               [quantity |-> config.quantity, side |-> signal.signal,
                price |-> signal.price, target |-> signal.target,
                stoploss |-> signal.stoploss]
          /\ frame[p].result = "trade" =>
               /\ orders[1].ok
               /\ frame[p].trade # None
               /\ LET o == frame[p].trade[1]
                  IN  /\ MapValues(activeTrades)
                           \ MapValues(frame[p].pre.activeTrades) = {o}
                      /\ MapGet(activeTrades, trades[o].id) = Some(o)
                      /\ trades[o].status = "EXECUTED"
                      /\ Some(trades[o].orderId) = orders[1].ret
                      /\ trades[o].type = signal.signal
                      /\ trades[o].quantity = config.quantity
                      /\ trades[o].entryPrice = signal.price
                      /\ trades[o].target = signal.target
                      /\ trades[o].stoploss = signal.stoploss
                      /\ trades[o].confidence = signal.confidence
                      /\ trades[o].closedAt = None
                      /\ trades[o].exitPrice = None
                      /\ trades[o].pnl = None

\* C3 witness: executeTradeSignals has returned a trade opened at a quoted
\* price, with ATR-based levels on either side of it.
C3_Witness ==
  \E p \in Procs :
    /\ Finished(p, "execute")
    /\ frame[p].result = "trade"
    /\ trades[frame[p].trade[1]].entryPrice > 0
    /\ trades[frame[p].trade[1]].target # trades[frame[p].trade[1]].stoploss

\* The gateway's k-th answer to invocation p listed no position of the
\* traded instrument.
ReportedNoPosition(p, k) ==
  /\ frame[p].calls[k].ok
  /\ \A i \in 1..Len(frame[p].calls[k].ret) :
       frame[p].calls[k].ret[i].instrument_token # config.instrumentToken

\* C4: a finished monitorActiveTrades has examined every trade it found
\* in the active set once, and returns exactly those for which the gateway
\* reported no position: each returned trade is CLOSED, has closedAt set
\* and has left the active set; each trade not returned is still in it.
C4_MonitorReturnsClosed ==
  \A p \in Procs :
    Finished(p, "monitor") =>
      LET found == MapValues(frame[p].pre.activeTrades)
          returned == Range(frame[p].closedTrades)
          seen == frame[p].seen
      IN  /\ frame[p].result = "list"
          /\ Len(frame[p].closedTrades) = Cardinality(returned)
          /\ returned \subseteq found
          /\ Len(seen) = Len(frame[p].calls)
          /\ \A o \in found :
               /\ Cardinality({k \in 1..Len(seen) : seen[k] = o}) = 1
               /\ o \in returned <=>
                    \E k \in 1..Len(seen) :
                      seen[k] = o /\ ReportedNoPosition(p, k)
          /\ \A o \in returned :
               /\ trades[o].status = "CLOSED"
               /\ trades[o].closedAt # None
               /\ o \notin MapValues(activeTrades)
          /\ \A o \in found \ returned : o \in MapValues(activeTrades)

\* C4 witness: monitorActiveTrades found two trades, returned one of them
\* and left the other, for which the gateway listed a position.
C4_Witness ==
  \E p \in Procs :
    /\ Finished(p, "monitor")
    /\ Cardinality(MapValues(frame[p].pre.activeTrades)) = 2
    /\ Len(frame[p].closedTrades) = 1
    /\ \A k \in 1..Len(frame[p].calls) : frame[p].calls[k].ok

\* (exitPrice - entryPrice) * quantity for BUY, mirrored for SELL
ClaimedPnl(trade) ==
  IF trade.type = "BUY"
    THEN (trade.exitPrice[1] - trade.entryPrice) * trade.quantity
    ELSE (trade.entryPrice - trade.exitPrice[1]) * trade.quantity

\* C5: every trade monitorActiveTrades returns as closed carries an
\* exitPrice and pnl = (exitPrice - entryPrice) * quantity for BUY,
\* (entryPrice - exitPrice) * quantity for SELL.
C5_MonitorClosePnl ==
  \A p \in Procs :
    Finished(p, "monitor") =>
      \A o \in Range(frame[p].closedTrades) :
        /\ trades[o].exitPrice # None
        /\ trades[o].pnl = Some(ClaimedPnl(trades[o]))

\* C6: a closeTrade that fails (unknown id, getQuote or cancelOrder
\* rejecting) throws and leaves every trade's fields and the active set
\* exactly as it found them.
C6_FailedCloseLeavesState ==
  \A p \in Procs :
    ( /\ Finished(p, "close")
      /\ \/ frame[p].trade = None
         \/ \E k \in 1..Len(frame[p].calls) : ~frame[p].calls[k].ok )
    => /\ frame[p].result = "throw"
       /\ Untouched(p)

\* C7: closedAt is written exactly once per trade, in the step that makes
\* the trade CLOSED, and never again.
C7_ClosedAtWrittenOnce ==
  [][ \A o \in DOMAIN trades \cap DOMAIN trades' :
        /\ trades[o].closedAt # None =>
             trades'[o].closedAt = trades[o].closedAt
        /\ trades'[o].closedAt # trades[o].closedAt =>
             trades[o].status # "CLOSED" /\ trades'[o].status = "CLOSED"
    ]_vars

\* C8: a trade's status never moves back: once CLOSED it stays CLOSED.
C8_ClosedIsTerminal ==
  [][ \A o \in DOMAIN trades \cap DOMAIN trades' :
        trades[o].status = "CLOSED" => trades'[o].status = "CLOSED"
    ]_vars

\* C9: a monitorActiveTrades during which getPositions rejected ends by
\* throwing to its caller, and the rejected step changed no trade.
C9_MonitorPropagatesGatewayError ==
  \A p \in Procs :
    ( /\ Finished(p, "monitor")
      /\ \E k \in 1..Len(frame[p].calls) : ~frame[p].calls[k].ok )
    => frame[p].result = "throw"

\* What C10 says of a closeTrade that returned true, given the exit price
\* the claim expects for the gateway's quote.
CloseTradeSucceeded(p, expected) ==
  LET f == frame[p]
      o == f.trade[1]
      cancels == CallsOf(f.calls, "cancelOrder")
  IN  /\ trades[o].status = "CLOSED"
      /\ trades[o].closedAt # None
      /\ trades[o].exitPrice = expected
      /\ trades[o].exitPrice # None
      /\ trades[o].pnl = Some(ClaimedPnl(trades[o]))
      /\ Len(cancels) = 1
      /\ cancels[1].args = f.pre.trades[o].orderId
      /\ cancels[1].ok
      /\ o \notin MapValues(activeTrades)
      /\ activeTrades = MapDelete(f.pre.activeTrades, f.tradeId[1])
      /\ MapGet(f.pre.activeTrades, f.tradeId[1]) = Some(o)
      /\ DOMAIN trades = DOMAIN f.pre.trades
      /\ \A other \in DOMAIN trades \ {o} : trades[other] = f.pre.trades[other]
      /\ \A fld \in {"id", "type", "entryPrice", "quantity", "target",
                     "stoploss", "orderId", "confidence", "createdAt"} :
           trades[o][fld] = f.pre.trades[o][fld]

\* The quote getQuote resolved with during invocation p
QuoteGiven(p) == CallsOf(frame[p].calls, "getQuote")[1].ret

\* C10 as stated: after a successful closeTrade the trade is CLOSED with
\* closedAt set, exitPrice is the last price the gateway quoted, pnl
\* follows from it, cancelOrder was called once with the trade's orderId,
\* the trade has left the active set and no other trade changed.
C10_CloseTradeQuotedPrice ==
  \A p \in Procs :
    (Finished(p, "close") /\ frame[p].result = "true") =>
      CloseTradeSucceeded(p, QuoteGiven(p))

\* C10 amended: the same, with exitPrice the last price the gateway quoted
\* or 0 when its quote has no last price for the instrument.
C10_CloseTradeSuccess ==
  \A p \in Procs :
    (Finished(p, "close") /\ frame[p].result = "true") =>
      CloseTradeSucceeded(p,
        IF QuoteGiven(p) = None THEN Some(0) ELSE QuoteGiven(p))

\* C10 witness: closeTrade has returned true for a SELL trade while another
\* trade was active, on a quote with no last price.
C10_Witness ==
  \E p \in Procs :
    /\ Finished(p, "close")
    /\ frame[p].result = "true"
    /\ frame[p].pre.trades[frame[p].trade[1]].type = "SELL"
    /\ MapSize(frame[p].pre.activeTrades) = 2
    /\ QuoteGiven(p) = None

\* C11: at every moment getStatistics reports closedTradesCount equal to the
\* number of trades the executor has closed so far (in monitorActiveTrades
\* or closeTrade), winRate = closed trades with pnl > 0 / closed trades *
\* 100 over all of them (0 when none has been closed), and a totalPnL that
\* includes the pnl of every closed trade.
C11_StatisticsCoverClosedTrades ==
  LET closed == DOMAIN closedLog.pnl
      profitable == {o \in closed : PnlOrZero(closedLog.pnl[o]) > 0}
      pnlOf == [o \in closed |-> PnlOrZero(closedLog.pnl[o])]
  IN  /\ getStatistics.closedTradesCount = Cardinality(closed)
      /\ getStatistics.winRate =
            IF closed = {} THEN 0
            ELSE ToFixed2(Cardinality(profitable) * 100, Cardinality(closed))
      /\ getStatistics.totalPnL = ToFixed2(SumOver(pnlOf, closed), 1)

\* The statuses of ExecutedTrade from which a trade can still move on.
NonTerminal == {"PENDING", "EXECUTED", "FILLED"}

HasStatus(o, status) == o \in DOMAIN trades /\ trades[o].status = status

\* Some run of at most one, two, three steps of the executor and the
\* gateway leaves trade o with the status.
StatusWithin1(o, status) ==
  HasStatus(o, status) \/ ENABLED (Next /\ HasStatus(o, status)')
StatusWithin2(o, status) ==
  StatusWithin1(o, status) \/ ENABLED (Next /\ StatusWithin1(o, status)')
StatusWithin3(o, status) ==
  StatusWithin2(o, status) \/ ENABLED (Next /\ StatusWithin2(o, status)')

\* C12: for every tracked trade in a non-terminal state (PENDING, EXECUTED
\* or FILLED) there is a sequence of executor operations and gateway
\* responses after which its status is CANCELLED; stated for the sequences
\* one operation on the idle executor can make (closeTrade: entry, getQuote,
\* cancelOrder).
C12_CancelledReachable ==
  Quiet =>
    \A o \in MapValues(activeTrades) :
      trades[o].status \in NonTerminal => StatusWithin3(o, "CANCELLED")

\* The same reachability holds of CLOSED, and no trade is ever CANCELLED.
ClosedReachable ==
  Quiet =>
    \A o \in MapValues(activeTrades) :
      trades[o].status \in NonTerminal => StatusWithin3(o, "CLOSED")

NeverCancelled ==
  \A o \in DOMAIN trades : trades[o].status \in {"EXECUTED", "FILLED", "CLOSED"}

\* Invocations p and q of monitorActiveTrades both return trade o as closed.
ClosedByBoth(p, q, o) ==
  /\ p # q
  /\ frame[p].op = "monitor" /\ frame[q].op = "monitor"
  /\ o \in Range(frame[p].closedTrades) \cap Range(frame[q].closedTrades)

\* C13: the same trade is transitioned to CLOSED (closedAt written) and
\* returned as closed by two monitorActiveTrades invocations only when the
\* two interleaved at their getPositions awaits; when each invocation starts
\* after the other has finished, no trade is returned by both.
C13_ClosedTwiceOnlyWhenInterleaved ==
  \A p \in Procs, q \in Procs : \A o \in DOMAIN trades :
    ClosedByBoth(p, q, o) => q \in frame[p].overlap /\ p \in frame[q].overlap

\* Two interleaved invocations have finished; each saw getPositions resolve
\* without a position for the same trade, closed it and returns it.
C13_Witness ==
  \E p \in Procs, q \in Procs : \E o \in DOMAIN trades :
    /\ ClosedByBoth(p, q, o)
    /\ frame[p].pc = "done" /\ frame[q].pc = "done"
    /\ q \in frame[p].overlap
    /\ trades[o].status = "CLOSED" /\ trades[o].closedAt # None
    /\ \E k \in 1..Len(frame[p].seen) :
         frame[p].seen[k] = o /\ ReportedNoPosition(p, k)
    /\ \E k \in 1..Len(frame[q].seen) :
         frame[q].seen[k] = o /\ ReportedNoPosition(q, k)

\* The consensus of the ten indicators has been computed.
Decided == probe # None /\ probe.fn = "consensus"
BuyCount == CountVotes(probe.signals, "BUY")
SellCount == CountVotes(probe.signals, "SELL")

\* C14 as claimed: for every combination of outcomes of the ten indicators
\* the reported confidence is max(buyCount, sellCount) / 10 * 100, the
\* indicators voting NONE counted in the denominator, also when the
\* direction is NONE because of a tie.
C14_ConfidenceIsMajorityShare ==
  Decided =>
    probe.confidence * Len(SignalKeys) = Max2(BuyCount, SellCount) * 100

\* C14: for every combination of outcomes of the ten indicators the
\* reported confidence is max(buyCount, sellCount) / 10 * 100 when
\* buyCount # sellCount, the indicators voting NONE counted in the
\* denominator and the value reported also when it is below the threshold
\* and the direction NONE; on a tie the reported confidence is 0.
C14_ConfidenceIsMajorityShareOrZero ==
  Decided =>
    /\ BuyCount # SellCount =>
         probe.confidence * Len(SignalKeys) = Max2(BuyCount, SellCount) * 100
    /\ BuyCount = SellCount => probe.confidence = 0

\* Three indicators vote BUY and three SELL: direction NONE, confidence 0.
C14_Witness ==
  /\ Decided
  /\ BuyCount = 3 /\ SellCount = 3
  /\ probe.finalSignal = "NONE" /\ probe.confidence = 0

\* C15: for every combination of outcomes the direction is NONE whenever
\* confidence < 80 or buyCount = sellCount, and BUY (SELL) exactly when
\* buyCount > sellCount (sellCount > buyCount) and confidence >= 80, which
\* with ten indicators is exactly when at least 8 vote for that direction.
C15_DirectionFromThreshold ==
  Decided =>
    /\ (probe.confidence < minConfidenceThreshold \/ BuyCount = SellCount)
         => probe.finalSignal = "NONE"
    /\ probe.finalSignal = "BUY" <=>
         (BuyCount > SellCount /\ probe.confidence >= minConfidenceThreshold)
    /\ probe.finalSignal = "SELL" <=>
         (SellCount > BuyCount /\ probe.confidence >= minConfidenceThreshold)
    /\ probe.finalSignal = "BUY" <=> BuyCount >= 8
    /\ probe.finalSignal = "SELL" <=> SellCount >= 8
    /\ probe.finalSignal \in {"BUY", "SELL", "NONE"}

\* Exactly eight indicators vote SELL, the other two BUY: direction SELL.
C15_Witness ==
  /\ Decided
  /\ SellCount = 8 /\ BuyCount = 2
  /\ probe.confidence = minConfidenceThreshold
  /\ probe.finalSignal = "SELL"

\* analyzeSymbol has returned a signal.
Analyzed == probe # None /\ probe.fn = "analyzeSymbol"

\* C16: every emitted BUY signal has target = price + 2 * ATR and
\* stoploss = price - ATR, every emitted SELL signal target = price -
\* 2 * ATR and stoploss = price + ATR, so that whenever ATR > 0 the reward
\* distance is exactly twice the risk distance.
C16_TargetAndStoplossFromATR ==
  Analyzed =>
    LET r == probe.result
    IN  /\ r.signal = "BUY" =>
             r.target = r.price + 2 * probe.atr /\ r.stoploss = r.price - probe.atr
        /\ r.signal = "SELL" =>
             r.target = r.price - 2 * probe.atr /\ r.stoploss = r.price + probe.atr
        /\ (r.signal \in {"BUY", "SELL"} /\ probe.atr > 0) =>
             Abs(r.target - r.price) = 2 * Abs(r.price - r.stoploss)

\* BUY at price 100 with ATR 2: target 104, stoploss 98, riskRewardRatio 2.
C16_Witness ==
  /\ Analyzed
  /\ probe.result.signal = "BUY" /\ probe.result.price = 100 /\ probe.atr = 2
  /\ probe.result.target = 104 /\ probe.result.stoploss = 98
  /\ probe.result.risk_reward_ratio = 2

\* C17: every BUY or SELL signal analyzeSymbol returns with stoploss # price
\* has risk_reward_ratio = |target - price| / |price - stoploss|, for every
\* price and ATR, a computed stoploss of 0 included; risk_reward_ratio is 0
\* when stoploss = price.
C17_RiskRewardRatio ==
  (Analyzed /\ probe.result.signal \in {"BUY", "SELL"}) =>
    LET r == probe.result
    IN  /\ r.stoploss # r.price =>
             r.risk_reward_ratio * Abs(r.price - r.stoploss)
               = Abs(r.target - r.price)
        /\ r.stoploss = r.price => r.risk_reward_ratio = 0

\* An ATR has been taken, by the strategy or by the market analysis.
AtrTaken == probe # None /\ probe.fn \in {"analyzeSymbol", "analyzeMarket"}

\* The sum of the last period true ranges of at least period + 1 candles
SumOfLastTrueRanges(candles, period) ==
  LET last == (Len(candles) - period + 1)..Len(candles)
  IN  SumOver([i \in last |-> TrueRange(candles, i)], last)

\* C19: the ATR is never negative, is 0 whenever there are at most period
\* (14) candles, and with at least period + 1 candles is the mean of the
\* last period true ranges max(high - low, |high - prevClose|,
\* |low - prevClose|).
C19_ATRNeedsPeriodPlusOne ==
  AtrTaken =>
    /\ probe.atr >= 0
    /\ Len(probe.candles1h) <= AtrPeriod => probe.atr = 0
    /\ Len(probe.candles1h) >= AtrPeriod + 1 =>
         probe.atr * AtrPeriod = SumOfLastTrueRanges(probe.candles1h, AtrPeriod)

\* C18: no bracket order is ever handed to the gateway with a non-positive
\* price or a non-positive quantity, the price that fell back to 0 for want
\* of a quoted last price included: such input is rejected before the call.
C18_NoOrderWithoutPrice ==
  \A p \in Procs : \A k \in 1..Len(frame[p].calls) :
    frame[p].calls[k].fn = "placeBracketOrder" =>
      /\ frame[p].calls[k].args.price > 0
      /\ frame[p].calls[k].args.quantity > 0

\* C20: for a series of at least period + 1 closes without a negative
\* change (average loss 0, e.g. strictly increasing) the RSI evaluates to
\* 100, and the RSI detector classifies the series as overbought (SELL),
\* never as oversold (BUY).
C20_RSIWithoutLosses ==
  (/\ probe # None /\ probe.fn = "detectRSI"
   /\ Len(probe.candles) >= RsiPeriod + 1
   /\ \A i \in DOMAIN Changes(probe.candles) : Changes(probe.candles)[i] >= 0)
    => /\ probe.rsi.num = 100 * probe.rsi.den
       /\ probe.signal = "SELL"

\* The MACD line over time: the MACD of every prefix of the closes.
MacdHistory(closes) == [k \in 1..Len(closes) |-> MacdOf(SubSeq(closes, 1, k))]

\* The signal line: the 9-period EMA of the MACD line's history.
SignalLine(closes) == calculateEMA(MacdHistory(closes), 9)

\* The vote is BUY exactly on a crossing upwards and SELL exactly on a
\* crossing downwards that is not also one upwards.
VotedOnCrossing(vote, macd, signal, prevMACD, prevSignal) ==
  /\ vote = "BUY" <=> CrossesUp(macd, signal, prevMACD, prevSignal)
  /\ vote = "SELL" <=> (/\ ~CrossesUp(macd, signal, prevMACD, prevSignal)
                        /\ CrossesDown(macd, signal, prevMACD, prevSignal))

\* C21: detectMACD compares the MACD line with a signal line that is the
\* 9-period EMA of the rolling series of MACD values; for at least 26
\* candles it returns BUY iff the previous MACD was <= the previous signal
\* line and the current MACD is > the current signal line, and SELL on the
\* mirrored condition.
C21_MACDCrossesSignalLine ==
  (/\ probe # None /\ probe.fn = "detectMACD"
   /\ Len(probe.candles) >= 26)
    => VotedOnCrossing(probe.signal,
                       MacdOf(Closes(probe.candles)),
                       SignalLine(Closes(probe.candles)),
                       MacdOf(DropLast(Closes(probe.candles))),
                       SignalLine(DropLast(Closes(probe.candles))))

\* getAvailableStrikes has returned.
Laddered == probe # None /\ probe.fn = "getAvailableStrikes"

\* What holds of every ladder: strictly increasing strikes exactly
\* `interval` apart, all positive, starting at lo = floor(basePrice /
\* interval) * interval - 500 or at the first positive step above it, and
\* not exceeding hi = ceil(basePrice / interval) * interval + 500.
LadderShape(strikes, basePrice, interval) ==
  LET lo == FloorDiv(basePrice, interval) * interval - 500
      hi == CeilDiv(basePrice, interval) * interval + 500
  IN  /\ Len(strikes) >= 1
      /\ \A k \in 1..(Len(strikes) - 1) : strikes[k + 1] = strikes[k] + interval
      /\ \A k \in 1..Len(strikes) : strikes[k] > 0 /\ strikes[k] <= hi
      /\ strikes[1] >= lo /\ (strikes[1] - lo) % interval = 0
      /\ (strikes[1] = lo \/ strikes[1] - interval <= 0)

\* The two ladder strikes nearest the base price are in the list.
NearestStrikesListed(strikes, basePrice, interval) ==
  /\ FloorDiv(basePrice, interval) * interval > 0
       => FloorDiv(basePrice, interval) * interval \in Range(strikes)
  /\ CeilDiv(basePrice, interval) * interval \in Range(strikes)

\* C22 as claimed: for every positive basePrice and interval the ladder has
\* the shape above and contains floor(basePrice / interval) * interval and
\* ceil(basePrice / interval) * interval.
C22_StrikeLadderHoldsNearest ==
  Laddered =>
    /\ LadderShape(probe.strikes, probe.basePrice, probe.strikeInterval)
    /\ NearestStrikesListed(probe.strikes, probe.basePrice, probe.strikeInterval)

\* C22: for every positive basePrice and interval the ladder has the shape
\* above; it contains floor(basePrice / interval) * interval and
\* ceil(basePrice / interval) * interval when 500 is a multiple of the
\* interval.
C22_StrikeLadder ==
  Laddered =>
    /\ LadderShape(probe.strikes, probe.basePrice, probe.strikeInterval)
    /\ 500 % probe.strikeInterval = 0 =>
         NearestStrikesListed(probe.strikes, probe.basePrice,
                              probe.strikeInterval)

\* basePrice 2750, interval 100: 2700 and 2800 are listed.
C22_Witness ==
  /\ Laddered
  /\ probe.basePrice = 2750 /\ probe.strikeInterval = 100
  /\ 2700 \in Range(probe.strikes) /\ 2800 \in Range(probe.strikes)
  /\ probe.strikes[1] = 2200 /\ probe.strikes[Len(probe.strikes)] = 3300

\* getNextExpiryDate has returned.
ExpiryGiven == probe # None /\ probe.fn = "getNextExpiryDate"

IsThursday(n) == (n + 4) % 7 = 4

\* the first Thursday strictly after day n
NextThursday(n) == CHOOSE k \in (n + 1)..(n + 7) : IsThursday(k)

\* the last Thursday of the month that is `ahead` months after the month
\* of day n
LastThursday(n, ahead) ==
  LET c == CivilFromDays(n)
      first == DaysFromCivil(c.year + ((c.month - 1 + ahead) \div 12),
                             ((c.month - 1 + ahead) % 12) + 1, 1)
      next == DaysFromCivil(c.year + ((c.month + ahead) \div 12),
                            ((c.month + ahead) % 12) + 1, 1)
  IN  CHOOSE k \in (next - 7)..(next - 1) : k >= first /\ IsThursday(k)

\* C23 as claimed: for every current date the returned date is a Thursday:
\* WEEKLY the first Thursday strictly after today, MONTHLY the last Thursday
\* of the current month, or of the next month when that day has passed
\* (either of the two on the day itself).
C23_ExpiryIsThursday ==
  ExpiryGiven =>
    LET n == probe.today.day
        got == DaysFromCivil(probe.expiry.year, probe.expiry.month,
                             probe.expiry.date)
    IN  /\ IsThursday(got)
        /\ probe.expiryType = "WEEKLY" => got = NextThursday(n)
        /\ probe.expiryType = "MONTHLY" =>
             \/ LastThursday(n, 0) >= n /\ got = LastThursday(n, 0)
             \/ LastThursday(n, 0) <= n /\ got = LastThursday(n, 1)

\* calculateGreeks has returned for the call and for the put.
BothDeltas ==
  probe # None /\ probe.fn = "calculateGreeks"
  /\ probe.CE # None /\ probe.PE # None

\* C24: for identical inputs the returned (rounded) deltas, in hundredths,
\* satisfy callDelta - putDelta = 1, with callDelta in [0, 1] and putDelta
\* in [-1, 0].
C24_CallPutDeltaParity ==
  BothDeltas =>
    LET callDelta == probe.CE[1].delta
        putDelta == probe.PE[1].delta
    IN  /\ callDelta.kind = "finite" /\ putDelta.kind = "finite"
        /\ callDelta.v \in 0..100
        /\ putDelta.v \in (-100)..0
        /\ callDelta.v - putDelta.v = 100

\* With time left to expiry the parity holds.
DeltaParityBeforeExpiry ==
  BothDeltas /\ probe.args.timeToExpiry > 0 =>
    /\ probe.CE[1].delta.kind = "finite" /\ probe.PE[1].delta.kind = "finite"
    /\ probe.CE[1].delta.v \in 0..100
    /\ probe.PE[1].delta.v \in (-100)..0
    /\ probe.CE[1].delta.v - probe.PE[1].delta.v = 100

\* createIronCondor has returned.
CondorBuilt == probe # None /\ probe.fn = "createIronCondor"

\* C25: maxProfit is the net credit, maxLoss the wider of the two spread
\* widths (each the positive distance between its long and short strike)
\* minus the net credit, and the breakevens are shortPut.strike - credit and
\* shortCall.strike + credit.
C25_IronCondorPayoff ==
  CondorBuilt =>
    LET s == probe.strategy
        longCall == s.contracts[1]
        shortCall == s.contracts[2]
        longPut == s.contracts[3]
        shortPut == s.contracts[4]
        credit == shortCall.currentPrice + shortPut.currentPrice
                    - longCall.currentPrice - longPut.currentPrice
        callWidth == Abs(longCall.strikePrice - shortCall.strikePrice)
        putWidth == Abs(shortPut.strikePrice - longPut.strikePrice)
    IN  /\ s.maxProfit = credit
        /\ s.maxLoss = Max2(callWidth, putWidth) - credit
        /\ s.breakEvenLow = shortPut.strikePrice - credit
        /\ s.breakEvenHigh = shortCall.strikePrice + credit

\* The executeSignal invocations that have returned.
SignalsExecuted ==
  {q \in Procs : frame[q].op = "executeSignal" /\ frame[q].pc = "done"}

\* |target - entry| / |entry - stoploss| >= 1.5, false when entry = stoploss
RatioAtLeastOneAndHalf(signal) ==
  /\ signal.entry # signal.stoploss
  /\ 2 * Abs(signal.target - signal.entry)
       >= 3 * Abs(signal.entry - signal.stoploss)

\* C26: executeSignal calls the gateway and records a trade (status PENDING)
\* only if the signal's risk:reward ratio is at least 1.5; otherwise it
\* returns null, has made no gateway call and has left the heap and the
\* active trades as it found them.
C26_OrderOnlyAboveRatioFloor ==
  \A q \in SignalsExecuted :
    LET f == frame[q]
    IN  /\ f.calls # <<>> => RatioAtLeastOneAndHalf(f.signal[1])
        /\ f.result = "trade" =>
             /\ RatioAtLeastOneAndHalf(f.signal[1])
             /\ trades[f.trade[1]].status = "PENDING"
             /\ f.trade[1] \in MapValues(activeTrades)
        /\ ~RatioAtLeastOneAndHalf(f.signal[1]) =>
             /\ f.result = "null"
             /\ f.calls = <<>>
             /\ activeTrades = f.pre.activeTrades
             /\ \A o \in MapValues(activeTrades) : trades[o] = f.pre.trades[o]

\* A signal with ratio exactly 1.5 was executed: the order was placed and
\* the trade recorded as PENDING.
C26_Witness ==
  \E q \in SignalsExecuted :
    /\ frame[q].signal[1] = TradingSignal("BUY", 100, 103, 98)
    /\ frame[q].result = "trade"
    /\ Len(frame[q].calls) = 1 /\ frame[q].calls[1].ok
    /\ trades[frame[q].trade[1]].status = "PENDING"
    /\ MapSize(activeTrades) = MapSize(frame[q].pre.activeTrades) + 1

\* Trade object o is held by the active set.
Held(o) == o \in MapValues(activeTrades)

\* Trade object o was given status CLOSED and has left the active set, and
\* the gate of executeTradeSignals is open.
Released(o) ==
  /\ o \in DOMAIN closedLog.pnl
  /\ ~Held(o)
  /\ ~MaxOpenReached(MapSize(activeTrades))

\* C27: when the gateway keeps reporting the position closed (not listed,
\* or listed with quantity 0) and monitorActiveTrades keeps being called
\* with success, every open trade eventually becomes CLOSED and leaves the
\* active set, and the gate of executeTradeSignals is open again.
C27_ClosedPositionFreesSlot ==
  \A o \in 1..MaxTrades : Held(o) ~> Released(o)

\* The trades the execute route has returned and no close has confirmed.
OpenForClient == {t \in probe.opened : t.id \notin probe.closed}

\* The last response came from this route.
Answered(route) == probe.last # None /\ probe.last[1].route = route

\* C28: a trade opened by POST /automatic-trade/execute is tracked across
\* requests: a later GET /active returns it, GET /statistics counts it,
\* POST /close with its id finds it, and an execute request opens a trade
\* only while fewer than maxOpenTrades are open.
C28_TradeTrackedAcrossRequests ==
  /\ Answered("active") =>
       \A t \in OpenForClient : t \in Range(probe.last[1].body)
  /\ Answered("statistics") =>
       probe.last[1].body.activeTradesCount >= Cardinality(OpenForClient)
  /\ (Answered("close")
        /\ \E t \in OpenForClient : t.id = probe.last[1].body[1])
       => probe.last[1].status = 200
  /\ Answered("execute") /\ probe.last[1].body # None =>
       Cardinality(OpenForClient) <= config.maxOpenTrades

\* C29: a trade recorded by executeTradeSignals has an id that no trade of
\* the active set had, so every trade that was in the active set is still
\* in it - also when trades are recorded in the same clock millisecond.
C29_TradeIdsDistinct ==
  \A p \in Procs :
    (Finished(p, "execute") /\ frame[p].result = "trade") =>
      /\ ~MapHas(frame[p].pre.activeTrades, trades[frame[p].trade[1]].id)
      /\ MapValues(frame[p].pre.activeTrades) \subseteq MapValues(activeTrades)
      /\ MapSize(activeTrades) = MapSize(frame[p].pre.activeTrades) + 1

\* Invocations p and q of executeTradeSignals overlapped, and each found
\* one slot left under maxOpenTrades when it was entered.
RacedForLastSlot(p, q) ==
  /\ p # q
  /\ frame[p].op = "execute" /\ frame[q].op = "execute"
  /\ q \in frame[p].overlap \/ p \in frame[q].overlap
  /\ MapSize(frame[p].pre.activeTrades) = config.maxOpenTrades - 1
  /\ MapSize(frame[q].pre.activeTrades) = config.maxOpenTrades - 1

\* Invocation p was turned away by the maxOpenTrades gate.
StoppedAtGate(p) ==
  /\ frame[p].pc = "done" /\ frame[p].result = "null"
  /\ frame[p].signal = None

\* C30: of two executeTradeSignals invocations that interleave at their
\* awaits while one slot is left, neither is stopped by the gate, and when
\* both signals are accepted and both orders succeed both trades are
\* recorded: the gateway has handed out maxOpenTrades + 1 orders.
C30_BothPassGate ==
  \A p, q \in Procs :
    RacedForLastSlot(p, q) =>
      /\ ~StoppedAtGate(p) /\ ~StoppedAtGate(q)
      /\ (frame[p].result = "trade" /\ frame[q].result = "trade") =>
           /\ gwOrderSeq >= config.maxOpenTrades + 1
           /\ frame[p].trade # frame[q].trade

\* Two invocations raced for the last slot and both placed their order;
\* the second trade was inserted when the active set was already full.
C30_Witness ==
  \E p, q \in Procs :
    /\ RacedForLastSlot(p, q)
    /\ frame[p].result = "trade" /\ frame[q].result = "trade"
    /\ gwOrderSeq = config.maxOpenTrades + 1
    /\ MapSize(activeTrades) = config.maxOpenTrades + 1

====
